---- MODULE Spec2Model ----
(***************************************************************************)
(* State-machine model of the esp32flasher host program.                   *)
(*                                                                         *)
(*   Spec          the current program: App.Flash / App.FlashMultipleFiles *)
(*                 (app.go) driving the session of the flasher file        *)
(*                 (constructors, enterBootloader, FlashData, SetBaudRate, *)
(*                 RebootTarget, Close) over sendCommand / sync /          *)
(*                 spiAttach of esp32_protocol.go.                         *)
(*   SpecProtocol  the session as implemented wholly by esp32_protocol.go  *)
(*                 (its own constructor, enterBootloader and FlashData)    *)
(*                 driven by the Flash that pairs with it.                 *)
(*   SpecSize      the size arithmetic of flashBegin / FlashData applied   *)
(*                 to image lengths over the whole 32-bit range.           *)
(*   SpecSlip      slipEncode and slipDecode applied to byte strings.      *)
(*   SpecCommand   the packet sendCommand builds for (cmd, data, checksum).*)
(*                                                                         *)
(* Bytes are naturals 0..255, byte strings are sequences.  A uint32 is a   *)
(* pair <<hi, lo>> of 16-bit limbs, so that 32-bit wrap-around is computed *)
(* exactly; a Go int holding a length is a triple <<top, hi, lo>>.         *)
(* The variable wire holds the request packets (8-byte header + payload,   *)
(* as sendCommand builds them before SLIP framing) written to the port     *)
(* since the running session operation began.                              *)
(***************************************************************************)
EXTENDS Integers, Sequences, FiniteSets, TLC

VARIABLES
  pc,        \* control position of the running App call
  impl,      \* "flasher" (current session code) or "protocol" (esp32_protocol.go)
  call,      \* the App method running: "Flash", "FlashMultipleFiles", "none"
  f,         \* the ESP32Flasher: [port, chipType, blockSize]; port = 0: no session
  open,      \* handles of the serial ports currently open
  handles,   \* number of ports opened so far (a handle is its ordinal)
  dtr, rts,  \* modem-control lines of the serial device
  wire,      \* request packets written to the port, in order
  dataLen,   \* len(data) of the image being flashed, a Go int <<top, hi, lo>>
  offset,    \* flash offset of the image, a uint32
  files,     \* FlashMultipleFiles: the files not yet flashed
  loc,       \* locals of the running session operation
  err,       \* the error value travelling up from the session operation
  ret,       \* what the App call returned ("running" until it returns)
  faults,    \* transport faults injected so far that the code recovered from
  closeLog,  \* one entry <<handle, dtr, rts, wasOpen>> per port.Close() call
  words,     \* SpecSize: the FLASH_BEGIN payload and block count computed
  codec,     \* SpecSlip / SpecCommand: input and results of the codec under check
  pending,   \* requests written whose response has not been read yet
  answered,  \* <<cmd, response>> of the last read of a FlashData stage, until
             \* the next request is written (<< >>: none)
  app        \* SpecMonitor: the App's monitor fields and the frontend's flags

vars == <<pc, impl, call, f, open, handles, dtr, rts, wire, dataLen, offset,
          files, loc, err, ret, faults, closeLog, words, codec, pending, answered,
          app>>

----------------------------------------------------------------------------
(* Program constants *)

ESP_FLASH_BEGIN == 2
ESP_FLASH_DATA == 3
ESP_FLASH_END == 4
ESP_SYNC == 8
ESP_READ_REG == 10
ESP_SPI_ATTACH == 13
ESP_CHANGE_BAUD == 15
ESP_FLASH_SECTOR == 4096
ESP_FLASH_WRITE_SIZE == 1024
PROTOCOL_BLOCK_SIZE == 4096
CHECKSUM_SEED == 239
PAD_BYTE == 255
FLASH_DATA_ATTEMPTS == 3
SYNC_EXTRA == 7
AGGRESSIVE_ATTEMPTS == 3
SLIP_END == 192
SLIP_ESC == 219
SLIP_ESC_END == 220
SLIP_ESC_ESC == 221

(* Bounds of the model *)

MaxBlocks == 5      \* the largest image takes this many 1024-byte blocks
MaxFaults == 2      \* recovered transport faults injected per App call
MaxFiles == 2       \* files handed to FlashMultipleFiles
MaxSlipLen == 4     \* the longest byte string handed to the SLIP codec

----------------------------------------------------------------------------
(* 32-bit and byte arithmetic *)

Limb == 256 * 256

U32FromNat(n) == <<(n \div Limb) % Limb, n % Limb>>

\* uint32 + small constant, wrapping at 2^32
U32AddSmall(u, k) ==
  LET lo == u[2] + k
  IN  <<(u[1] + lo \div Limb) % Limb, lo % Limb>>

\* uint32 / d for a power of two d <= 65536: the quotient as a natural
U32DivPow2(u, d) == u[1] * (Limb \div d) + u[2] \div d

\* natural q times m, wrapped to uint32 (q < 2^22, m <= 65536)
U32MulSmall(q, m) ==
  LET lo == (q % Limb) * m
      hi == (q \div Limb) * m + lo \div Limb
  IN  <<hi % Limb, lo % Limb>>

U32Less(a, b) == a[1] < b[1] \/ (a[1] = b[1] /\ a[2] < b[2])

\* uint32(n) of a Go int n = <<top, hi, lo>>
ToUint32(n) == <<n[2], n[3]>>

IntFromNat(n) == <<0, (n \div Limb) % Limb, n % Limb>>

\* the value of a Go int known to be below 2^31, as a natural
SmallInt(n) == n[2] * Limb + n[3]

\* binary.LittleEndian.PutUint32
PutUint32(u) == <<u[2] % 256, u[2] \div 256, u[1] % 256, u[1] \div 256>>

\* binary.LittleEndian.Uint32 of the 4 bytes of b starting at index i (1-based)
Uint32At(b, i) == <<b[i + 3] * 256 + b[i + 2], b[i + 1] * 256 + b[i]>>

\* binary.LittleEndian.PutUint16(uint16(n))
PutUint16(n) == <<n % 256, (n \div 256) % 256>>

\* a ^ b on bytes, from the table of the operation on 4-bit halves
RECURSIVE XorBits(_, _)
XorBits(a, b) ==
  IF a = 0 /\ b = 0 THEN 0
  ELSE ((a + b) % 2) + 2 * XorBits(a \div 2, b \div 2)

XorNibble == [a \in 0..15 |-> [b \in 0..15 |-> XorBits(a, b)]]

BitXor(a, b) == XorNibble[a % 16][b % 16] + 16 * XorNibble[a \div 16][b \div 16]

Zeros(n) == [i \in 1..n |-> 0]

----------------------------------------------------------------------------
(* The image: its length is dataLen; its content is fixed by position *)

DataByte(i) == (7 * i + 13 * (i \div 1024) + 1) % 256

----------------------------------------------------------------------------
(* Command layer *)

\* calculateChecksum's loop over data[lo..hi], left to right from acc
RECURSIVE XorFold(_, _, _, _)
XorFold(acc, data, lo, hi) ==
  IF lo > hi THEN acc
  ELSE IF lo = hi THEN BitXor(acc, data[lo])
  ELSE LET mid == (lo + hi) \div 2
           left == XorFold(acc, data, lo, mid)
       IN  IF left \in 0..255 THEN XorFold(left, data, mid + 1, hi) ELSE left

calculateChecksum(data) ==
  U32FromNat(XorFold(CHECKSUM_SEED, data, 1, Len(data)) % 256)

\* the packet sendCommand builds: direction, command, size, checksum, data
Packet(cmd, data, checksum) ==
  <<0, cmd>> \o PutUint16(Len(data)) \o PutUint32(checksum) \o data

PacketCmd(p) == p[2]
PacketSize(p) == p[3] + 256 * p[4]
PacketChecksum(p) == Uint32At(p, 5)
PacketData(p) == SubSeq(p, 9, Len(p))

NoChecksum == <<0, 0>>

syncData == <<7, 7, 18, 32>> \o [i \in 1..32 |-> 85]

\* a variant of FlashDataPayload that numbers the blocks from 1
FlashDataPayloadOneBased(data, seq) ==
  PutUint32(U32FromNat(Len(data))) \o PutUint32(U32FromNat(seq + 1))
    \o PutUint32(<<0, 0>>) \o PutUint32(<<0, 0>>) \o data

\* flashData: the 16-byte data header followed by the block
FlashDataPayload(data, seq) ==
  PutUint32(U32FromNat(Len(data))) \o PutUint32(U32FromNat(seq))
    \o PutUint32(<<0, 0>>) \o PutUint32(<<0, 0>>) \o data

\* the seq field of a FLASH_DATA packet
PacketSeq(p) == Uint32At(p, 13)

\* flashBegin of the flasher file: the four words for (size, offset)
NumBlocksU32(size, blockSize) ==
  U32FromNat(U32DivPow2(U32AddSmall(size, blockSize - 1), blockSize))

EraseSizeU32(size) ==
  U32MulSmall(U32DivPow2(U32AddSmall(size, ESP_FLASH_SECTOR - 1), ESP_FLASH_SECTOR),
              ESP_FLASH_SECTOR)

\* a variant of flashBeginData with the first two words exchanged
flashBeginDataSwapped(size, off, blockSize) ==
  PutUint32(NumBlocksU32(size, blockSize)) \o PutUint32(EraseSizeU32(size))
    \o PutUint32(U32FromNat(blockSize)) \o PutUint32(off)

flashBeginData(size, off, blockSize) ==
  PutUint32(EraseSizeU32(size)) \o PutUint32(NumBlocksU32(size, blockSize))
    \o PutUint32(U32FromNat(blockSize)) \o PutUint32(off)

\* flashBegin of esp32_protocol.go: sectors to erase, packets of 4096 bytes
protocolFlashBeginData(size, off) ==
  LET sectors == U32DivPow2(U32AddSmall(size, ESP_FLASH_SECTOR - 1), ESP_FLASH_SECTOR)
      numPackets == U32DivPow2(U32AddSmall(size, PROTOCOL_BLOCK_SIZE - 1),
                               PROTOCOL_BLOCK_SIZE)
  IN  PutUint32(U32MulSmall(sectors, ESP_FLASH_SECTOR)) \o PutUint32(U32FromNat(numPackets))
        \o PutUint32(U32FromNat(PROTOCOL_BLOCK_SIZE)) \o PutUint32(off)

\* FlashData: totalBlocks, computed in Go int (no wrap for the lengths modelled)
TotalBlocks(n, blockSize) ==
  n[1] * ((Limb \div blockSize) * Limb) + n[2] * (Limb \div blockSize)
    + (n[3] + blockSize - 1) \div blockSize

\* FlashData: block seq of an image of n bytes: the slice, then 0xFF padding
Block(seq, n, blockSize) ==
  LET start == seq * blockSize
      end == IF start + blockSize > n THEN n ELSE start + blockSize
  IN  [i \in 1..blockSize |->
         IF i - 1 < end - start THEN DataByte(start + i - 1) ELSE PAD_BYTE]

----------------------------------------------------------------------------
(* SLIP framing *)

\* a variant of slipEscape that emits every byte as it is
slipEscapeNone(b) == <<b>>

\* slipEncode: the switch over one byte of the data
slipEscape(b) ==
  IF b = SLIP_END THEN <<SLIP_ESC, SLIP_ESC_END>>
  ELSE IF b = SLIP_ESC THEN <<SLIP_ESC, SLIP_ESC_ESC>>
  ELSE <<b>>

\* slipEncode: the loop over data from index i on, buf being what is written
RECURSIVE slipEncodeLoop(_, _, _)
slipEncodeLoop(buf, data, i) ==
  IF i > Len(data) THEN buf
  ELSE slipEncodeLoop(buf \o slipEscape(data[i]), data, i + 1)

slipEncode(data) == Append(slipEncodeLoop(<<SLIP_END>>, data, 1), SLIP_END)

\* a variant of slipFramed that does not look at the last byte
slipFramedLeading(data) == ~(Len(data) < 2 \/ data[1] # SLIP_END)

\* slipDecode: the check of the frame's length and delimiters
slipFramed(data) ==
  ~(Len(data) < 2 \/ data[1] # SLIP_END \/ data[Len(data)] # SLIP_END)

\* a variant of slipUnescape with the two escape codes exchanged
slipUnescapeSwapped(b) ==
  IF b = SLIP_ESC_END THEN SLIP_ESC
  ELSE IF b = SLIP_ESC_ESC THEN SLIP_END
  ELSE -1

\* slipDecode: the switch over the byte after an ESC (-1: the default case)
slipUnescape(b) ==
  IF b = SLIP_ESC_END THEN SLIP_END
  ELSE IF b = SLIP_ESC_ESC THEN SLIP_ESC
  ELSE -1

\* slipDecode: the loop over data[i .. len-1) (indices from 1 here), with the
\* buffer and the escaped flag; the result is (bytes, error)
RECURSIVE slipDecodeLoop(_, _, _, _)
slipDecodeLoop(buf, escaped, data, i) ==
  IF i > Len(data) - 1 THEN [data |-> buf, err |-> "nil"]
  ELSE IF escaped
       THEN IF slipUnescape(data[i]) = -1
            THEN [data |-> << >>, err |-> "invalid escape sequence"]
            ELSE slipDecodeLoop(Append(buf, slipUnescape(data[i])), FALSE, data, i + 1)
  ELSE IF data[i] = SLIP_ESC THEN slipDecodeLoop(buf, TRUE, data, i + 1)
  ELSE slipDecodeLoop(Append(buf, data[i]), FALSE, data, i + 1)

slipDecode(data) ==
  IF ~slipFramed(data) THEN [data |-> << >>, err |-> "invalid SLIP packet"]
  ELSE slipDecodeLoop(<< >>, FALSE, data, 2)

----------------------------------------------------------------------------
(* Errors: the message chain (outermost first) and the values it formats *)

Nil == [msg |-> <<>>, seq |-> -1, status |-> -1, code |-> -1]

Errorf(m) == [msg |-> <<m>>, seq |-> -1, status |-> -1, code |-> -1]

Wrap(m, e) == [e EXCEPT !.msg = <<m>> \o @]

----------------------------------------------------------------------------
(* Responses the target (or line noise) can produce *)

Resp(cmd, trailer) == <<1, cmd, Len(trailer), 0, 0, 0, 0, 0>> \o trailer

\* a READ_REG response carrying the magic value in bytes [8..12)
RegResp(magic) == <<1, ESP_READ_REG, 4, 0, 0, 0, 0, 0>> \o PutUint32(magic)

ESP32_CHIP_MAGIC == <<240, 7555>>
ESP32S2_CHIP_MAGIC == <<0, 1990>>
ESP32S3_CHIP_MAGIC == <<0, 9>>
ESP32C3_CHIP_MAGIC == <<26913, 20591>>

\* what a read after a request for cmd may return besides a timeout
ResponsesFor(cmd) ==
  { Resp(cmd, <<>>),                \* header only
    Resp(cmd, <<0, 0, 0, 0>>),      \* status OK
    Resp(cmd, <<1, 6, 0, 0>>),      \* status 1, error code 6
    Resp(cmd, <<1, 0>>),            \* 2-byte status block, failed
    <<1, cmd>>,                     \* truncated
    <<0, cmd, 0, 0, 0, 0, 0, 0>>,   \* a request echoed back
    Resp(IF cmd = ESP_SYNC THEN ESP_READ_REG ELSE ESP_SYNC, <<0, 0, 0, 0>>) }

ValidHeader(response, cmd) ==
  ~(Len(response) < 8 \/ response[1] # 1 \/ response[2] # cmd)

\* len(response) >= 12 and response[len-4] != 0
BadStatus(response) ==
  Len(response) >= 12 /\ response[Len(response) - 3] # 0

StatusByte(response) == response[Len(response) - 3]
ErrorByte(response) == response[Len(response) - 2]

----------------------------------------------------------------------------
(* Inputs *)

\* image lengths handed to App.Flash; the largest one is 4100 for MaxBlocks = 5
ImageSizes == {0, 1024, 1025, (MaxBlocks - 1) * 1024 + 4}

\* the files FlashMultipleFiles may be handed: file k has FileSize(k) bytes
FileIds == 1..MaxFiles
FileSize(k) == 1024 * (k - 1) + 1
FileOffset(k) == U32FromNat(4096 * k)

APP_OFFSET == <<1, 0>>          \* 0x10000
BAUD_460800 == <<7, 2048>>      \* 460800

NoFlasher == [port |-> 0, chipType |-> "Unknown", blockSize |-> 0]
\* read / response: whether the running flashData call has read yet, and what
\* its last read returned
NoLocals ==
  [seq |-> 0, attempt |-> 0, i |-> 0, payload |-> <<>>, checksum |-> <<0, 0>>,
   read |-> FALSE, response |-> <<>>, resets |-> <<>>, detect |-> <<>>]

----------------------------------------------------------------------------
(* The serial port *)

PortOpen == f.port \in open

\* port.Write succeeds or fails; on a closed port it fails
WriteOutcomes == IF PortOpen THEN BOOLEAN ELSE {FALSE}

\* readResponse / readResponseRobust: << >> stands for the timeout error (no
\* byte arrived before the deadline), anything else is the response returned
ReadOutcomes(cmd) == IF PortOpen THEN {<< >>} \cup ResponsesFor(cmd) ELSE {<< >>}

\* <<DTR, RTS>> as the driver leaves them when it opens the device: both
\* asserted or both clear
LineStatesAtOpen == {<<TRUE, TRUE>>, <<FALSE, FALSE>>}

\* SetDTR / SetRTS act on an open port only (their errors are ignored)
SetLines(d, r) ==
  /\ dtr' = IF PortOpen THEN d ELSE dtr
  /\ rts' = IF PortOpen THEN r ELSE rts

\* a fault the code recovers from (a retry) may be injected: at most
\* MaxFaults of them per App call; without limit when FlashData is called
\* on its own (call = "FlashData"), where faults does not count
FaultAllowed == call = "FlashData" \/ faults < MaxFaults

FaultInjected == faults' = IF call = "FlashData" THEN faults ELSE faults + 1

\* port.Close() on handle h
ClosePort(h) ==
  /\ open' = open \ {h}
  /\ closeLog' = Append(closeLog, <<h, dtr, rts, h \in open>>)

\* port.Write of sendCommand: every packet that went out is one more request
\* awaiting its read
RequestWritten == pending' = pending + (Len(wire') - Len(wire))

\* readResponse / readResponseRobust has returned (a response or the timeout)
ResponseRead == pending' = IF pending > 0 THEN pending - 1 ELSE 0

----------------------------------------------------------------------------
(* Initial states *)

InitCommon ==
  /\ pc = "idle"
  /\ call = "none"
  /\ f = NoFlasher
  /\ open = {}
  /\ handles = 0
  /\ dtr = FALSE
  /\ rts = FALSE
  /\ wire = << >>
  /\ dataLen = <<0, 0, 0>>
  /\ offset = <<0, 0>>
  /\ files = {}
  /\ loc = NoLocals
  /\ err = Nil
  /\ ret = Nil
  /\ faults = 0
  /\ closeLog = << >>
  /\ words = << >>
  /\ pending = 0
  /\ answered = << >>
  /\ app = << >>

Init == InitCommon /\ impl = "flasher" /\ codec = << >>

----------------------------------------------------------------------------
(* App.Flash and App.FlashMultipleFiles: entry *)

\* App.Flash: os.Stat, os.ReadFile, then the automatic constructor
Flash ==
  /\ pc = "idle"
  /\ impl = "flasher"
  /\ call' = "Flash"
  /\ \E file \in {"missing", "unreadable", "ok"}, n \in ImageSizes :
       /\ dataLen' = IF file = "ok" THEN IntFromNat(n) ELSE dataLen
       /\ offset' = IF file = "ok" THEN APP_OFFSET ELSE offset
       /\ ret' = CASE file = "missing" -> Errorf("file does not exist")
                   [] file = "unreadable" -> Errorf("failed to read file")
                   [] OTHER -> ret
       /\ pc' = IF file = "ok" THEN "NewESP32FlasherWithProgress" ELSE "returned"
  /\ UNCHANGED <<impl, f, open, handles, dtr, rts, wire, files, loc, err, faults,
                 closeLog, words, codec, pending, answered, app>>

\* App.FlashMultipleFiles: the map of files, then the automatic constructor
FlashMultipleFiles ==
  /\ pc = "idle"
  /\ impl = "flasher"
  /\ call' = "FlashMultipleFiles"
  /\ \E n \in 0..MaxFiles : files' = 1..n
  /\ pc' = "NewESP32FlasherWithProgress"
  /\ UNCHANGED <<impl, f, open, handles, dtr, rts, wire, dataLen, offset, loc, err,
                 ret, faults, closeLog, words, codec, pending, answered, app>>

----------------------------------------------------------------------------
(* Constructors and enterBootloader of the flasher file *)

\* where the App call continues once a constructor returned a flasher
AfterConstructor == IF call = "Flash" THEN "FlashData" ELSE "SetBaudRate"

\* serial.Open and the ESP32Flasher literal; the driver decides the lines
OpenPort(okPc, failPc) ==
  \E ok \in BOOLEAN, lines \in LineStatesAtOpen :
    LET d == lines[1]
        r == lines[2]
    IN
    /\ handles' = IF ok THEN handles + 1 ELSE handles
    /\ open' = IF ok THEN open \cup {handles + 1} ELSE open
    /\ f' = IF ok THEN [port |-> handles + 1, chipType |-> "Unknown",
                        blockSize |-> ESP_FLASH_WRITE_SIZE]
            ELSE f
    /\ dtr' = IF ok THEN d ELSE dtr
    /\ rts' = IF ok THEN r ELSE rts
    /\ wire' = << >>
    /\ err' = IF ok THEN Nil ELSE Errorf("failed to open port")
    /\ pc' = IF ok THEN okPc ELSE failPc

NewESP32FlasherWithProgress ==
  /\ pc = "NewESP32FlasherWithProgress"
  /\ OpenPort("hardReset", "NewESP32FlasherManual")
  /\ UNCHANGED <<impl, call, dataLen, offset, files, loc, ret, faults, closeLog, words, codec, pending, answered, app>>

\* testSync: one SYNC, true on a response with a valid SYNC header
testSync(w, r) == w /\ ValidHeader(r, ESP_SYNC)

\* isInBootloader: drained output classified, a negative indicator fails at
\* once; otherwise one SYNC, and without a valid answer the indicator decides
isInBootloader(ind, w, r) ==
  IF ind = "negative" THEN FALSE
  ELSE IF testSync(w, r) THEN TRUE ELSE ind = "positive"

\* where enterBootloader goes after a validation: return nil as soon as it
\* succeeded, the next strategy otherwise
AfterValidationNeverReturns(ok, failPc) == failPc

AfterValidation(ok, failPc) == IF ok THEN AfterConstructor ELSE failPc

\* one reset strategy of enterBootloader followed by its validation;
\* loc.resets records the reset sequences run and what each validation said
ResetAndValidate(name, d, r, failPc, attempt) ==
  \E ind \in {"none", "positive", "negative"}, w \in WriteOutcomes,
     resp \in ReadOutcomes(ESP_SYNC) :
    /\ SetLines(d, r)
    /\ wire' = IF ind # "negative" /\ w
               THEN Append(wire, Packet(ESP_SYNC, syncData, NoChecksum)) ELSE wire
    /\ loc' = [loc EXCEPT !.resets = Append(@, <<name, isInBootloader(ind, w, resp)>>),
                          !.attempt = attempt]
    /\ pc' = AfterValidation(isInBootloader(ind, w, resp), failPc)

\* Method 1: hardReset leaves DTR = false, RTS = false
hardReset ==
  /\ pc = "hardReset"
  /\ ResetAndValidate("hardReset", FALSE, FALSE, "hardResetInverted", loc.attempt)
  /\ UNCHANGED <<impl, call, f, open, handles, dataLen, offset, files, err, ret,
                 faults, closeLog, words, codec, pending, answered, app>>

\* Method 2: hardResetInverted leaves DTR = true, RTS = true
hardResetInverted ==
  /\ pc = "hardResetInverted"
  /\ ResetAndValidate("hardResetInverted", TRUE, TRUE, "alternativeReset", loc.attempt)
  /\ UNCHANGED <<impl, call, f, open, handles, dataLen, offset, files, err, ret,
                 faults, closeLog, words, codec, pending, answered, app>>

\* Method 3: alternativeReset leaves DTR = false, RTS = false
alternativeReset ==
  /\ pc = "alternativeReset"
  /\ ResetAndValidate("alternativeReset", FALSE, FALSE, "aggressiveReset", 0)
  /\ UNCHANGED <<impl, call, f, open, handles, dataLen, offset, files, err, ret,
                 faults, closeLog, words, codec, pending, answered, app>>

\* Method 4: up to three aggressiveReset attempts, each validated
aggressiveReset ==
  /\ pc = "aggressiveReset"
  /\ ResetAndValidate("aggressiveReset", FALSE, FALSE,
       IF loc.attempt + 1 < AGGRESSIVE_ATTEMPTS THEN "aggressiveReset" ELSE "finalTestSync",
       loc.attempt + 1)
  /\ UNCHANGED <<impl, call, f, open, handles, dataLen, offset, files, err, ret,
                 faults, closeLog, words, codec, pending, answered, app>>

\* the final testSync of enterBootloader; on failure the constructor closes
\* the port and returns the error
finalTestSync ==
  /\ pc = "finalTestSync"
  /\ \E w \in WriteOutcomes, resp \in ReadOutcomes(ESP_SYNC) :
       /\ wire' = IF w THEN Append(wire, Packet(ESP_SYNC, syncData, NoChecksum)) ELSE wire
       /\ IF testSync(w, resp)
          THEN /\ pc' = AfterConstructor
               /\ UNCHANGED <<open, closeLog, err>>
          ELSE /\ ClosePort(f.port)
               /\ err' = Wrap("failed to enter bootloader",
                              Errorf("failed to enter bootloader mode"))
               /\ pc' = "NewESP32FlasherManual"
  /\ UNCHANGED <<impl, call, f, handles, dtr, rts, dataLen, offset, files, loc, ret,
                 faults, words, codec, pending, answered, app>>

\* NewESP32FlasherManual: serial.Open and the ESP32Flasher literal
NewESP32FlasherManual ==
  /\ pc = "NewESP32FlasherManual"
  /\ \E ok \in BOOLEAN, lines \in LineStatesAtOpen :
     LET d == lines[1]
         r == lines[2]
     IN
       /\ handles' = IF ok THEN handles + 1 ELSE handles
       /\ open' = IF ok THEN open \cup {handles + 1} ELSE open
       /\ f' = IF ok THEN [port |-> handles + 1, chipType |-> "Unknown",
                           blockSize |-> ESP_FLASH_WRITE_SIZE]
               ELSE f
       /\ dtr' = IF ok THEN d ELSE dtr
       /\ rts' = IF ok THEN r ELSE rts
       /\ wire' = << >>
       /\ err' = Nil
       /\ ret' = IF ok THEN ret
                 ELSE Wrap("failed to create flasher in manual mode",
                           Errorf("failed to open port"))
       /\ pc' = IF ok THEN "manualTestSync" ELSE "returned"
  /\ UNCHANGED <<impl, call, dataLen, offset, files, loc, faults, closeLog, words, codec, pending, answered, app>>

\* NewESP32FlasherManual: testSync; on failure the port is closed and the
\* error returned, which the App call returns in turn
manualTestSync ==
  /\ pc = "manualTestSync"
  /\ \E w \in WriteOutcomes, resp \in ReadOutcomes(ESP_SYNC) :
       /\ wire' = IF w THEN Append(wire, Packet(ESP_SYNC, syncData, NoChecksum)) ELSE wire
       /\ IF testSync(w, resp)
          THEN /\ pc' = AfterConstructor
               /\ UNCHANGED <<open, closeLog, ret>>
          ELSE /\ ClosePort(f.port)
               /\ ret' = Wrap("failed to create flasher in manual mode",
                              Errorf("ESP32 not in bootloader mode"))
               /\ pc' = "returned"
  /\ UNCHANGED <<impl, call, f, handles, dtr, rts, dataLen, offset, files, loc, err,
                 faults, words, codec, pending, answered, app>>

\* Close: f.port.Close()
Close == ClosePort(f.port)

----------------------------------------------------------------------------
(* SetBaudRate, RebootTarget *)

\* SetBaudRate: sendCommand(0x0F, rate, 0); FlashMultipleFiles ignores the error
SetBaudRate ==
  /\ pc = "SetBaudRate"
  /\ \E w \in WriteOutcomes :
       /\ wire' = IF w THEN <<Packet(ESP_CHANGE_BAUD,
                                     PutUint32(BAUD_460800) \o PutUint32(<<0, 0>>),
                                     NoChecksum)>>
                  ELSE << >>
       /\ pc' = IF w THEN "SetBaudRate_read" ELSE "files"
  /\ pending' = pending + Len(wire')
  /\ UNCHANGED <<impl, call, f, open, handles, dtr, rts, dataLen, offset, files, loc,
                 err, ret, faults, closeLog, words, codec, answered, app>>

\* SetBaudRate: readResponse, the check of the response, then the port is
\* closed and reopened at the new rate; f.port changes only if that succeeds.
\* loc.response keeps what the read returned
SetBaudRate_read ==
  /\ pc = "SetBaudRate_read"
  /\ \E resp \in ReadOutcomes(ESP_CHANGE_BAUD), ok \in BOOLEAN,
        lines \in LineStatesAtOpen :
     LET d == lines[1]
         r == lines[2]
     IN
       /\ loc' = [loc EXCEPT !.response = resp]
       /\ IF resp = << >> \/ Len(resp) < 8 \/ resp[1] # 1
          THEN UNCHANGED <<f, open, handles, dtr, rts, closeLog>>
          ELSE /\ closeLog' = Append(closeLog, <<f.port, dtr, rts, PortOpen>>)
               /\ handles' = IF ok THEN handles + 1 ELSE handles
               /\ open' = IF ok THEN (open \ {f.port}) \cup {handles + 1}
                          ELSE open \ {f.port}
               /\ f' = IF ok THEN [f EXCEPT !.port = handles + 1] ELSE f
               /\ dtr' = IF ok THEN d ELSE dtr
               /\ rts' = IF ok THEN r ELSE rts
  /\ pc' = "files"
  /\ ResponseRead
  /\ UNCHANGED <<impl, call, wire, dataLen, offset, files, err, ret, faults, words, codec, answered, app>>

\* FlashMultipleFiles: the loop over the map (in any order): read the next
\* file and flash it; after the last one RebootTarget
NextFile ==
  /\ pc = "files"
  /\ IF files = {}
     THEN /\ pc' = "RebootTarget"
          /\ UNCHANGED <<dataLen, offset, files, err>>
     ELSE \E k \in files, readable \in BOOLEAN :
            /\ files' = files \ {k}
            /\ dataLen' = IF readable THEN IntFromNat(FileSize(k)) ELSE dataLen
            /\ offset' = IF readable THEN FileOffset(k) ELSE offset
            /\ err' = IF readable THEN Nil ELSE Errorf("failed to read file")
            /\ pc' = IF readable THEN "FlashData" ELSE "Close"
  /\ UNCHANGED <<impl, call, f, open, handles, dtr, rts, wire, loc, ret, faults,
                 closeLog, words, codec, pending, answered, app>>

\* RebootTarget: SetDTR(false), SetRTS(true), then the 100 ms sleep
RebootTarget ==
  /\ pc = "RebootTarget"
  /\ SetLines(FALSE, TRUE)
  /\ pc' = "RebootTarget_release"
  /\ UNCHANGED <<impl, call, f, open, handles, wire, dataLen, offset, files, loc, err,
                 ret, faults, closeLog, words, codec, pending, answered, app>>

\* RebootTarget after the sleep: SetRTS(false), return nil
RebootTarget_release ==
  /\ pc = "RebootTarget_release"
  /\ SetLines(dtr, FALSE)
  /\ err' = Nil
  /\ pc' = "Close"
  /\ UNCHANGED <<impl, call, f, open, handles, wire, dataLen, offset, files, loc, ret,
                 faults, closeLog, words, codec, pending, answered, app>>

\* the deferred flasher.Close() runs and the App call returns
DeferredClose ==
  /\ pc = "Close"
  /\ Close
  /\ ret' = err
  /\ pc' = "returned"
  /\ UNCHANGED <<impl, call, f, handles, dtr, rts, wire, dataLen, offset, files, loc,
                 err, faults, words, codec, pending, answered, app>>

----------------------------------------------------------------------------
(* FlashData of the flasher file and the operations it calls *)

\* a variant of FlashDataReturn in which a stage's error is dropped and
\* FlashData goes on with the next stage
FlashDataReturnSwallowed(e) ==
  /\ err' = Nil
  /\ pc' = IF e # Nil /\ pc \in {"sync", "sync_read"} THEN "detectChip"
           ELSE IF e # Nil /\ pc \in {"spiAttach", "spiAttach_read"} THEN "flashBegin"
           ELSE IF e # Nil /\ pc \in {"flashBegin", "flashBegin_read", "flashData",
                                      "flashData_read"}
                THEN "flashEnd"
           ELSE IF call = "FlashMultipleFiles" THEN "files" ELSE "RebootTarget"

\* a variant of FlashDataReturn in which FlashData does not return but
\* starts over
FlashDataReturnStartsOver(e) ==
  /\ err' = e
  /\ pc' = "FlashData"

\* FlashData returns e: to the App call, which wraps an error and returns it
\* (through the deferred Close) or goes on, or to whoever called FlashData
\* on its own
FlashDataReturn(e) ==
  /\ err' = IF e = Nil \/ call = "FlashData" THEN e
            ELSE Wrap(IF call = "Flash" THEN "failed to flash" ELSE "failed to flash file", e)
  /\ pc' = IF call = "FlashData" THEN "returned"
           ELSE IF e # Nil THEN "Close"
           ELSE IF call = "FlashMultipleFiles" THEN "files"
           ELSE IF impl = "flasher" THEN "RebootTarget" ELSE "Close"

\* FlashData is entered (flasher file): step 1 is sync
FlashData ==
  /\ pc = "FlashData"
  /\ wire' = << >>
  /\ loc' = NoLocals
  /\ pc' = "sync"
  /\ answered' = << >>
  /\ UNCHANGED <<impl, call, f, open, handles, dtr, rts, dataLen, offset, files, err,
                 ret, faults, closeLog, words, codec, pending, app>>

\* sync: the SYNC request is written
sync ==
  /\ pc = "sync"
  /\ \E w \in WriteOutcomes :
       IF w
       THEN /\ wire' = Append(wire, Packet(ESP_SYNC, syncData, NoChecksum))
            /\ pc' = "sync_read"
            /\ UNCHANGED err
       ELSE /\ FlashDataReturn(Wrap("sync failed", Errorf("failed to send sync command")))
            /\ UNCHANGED wire
  /\ RequestWritten
  /\ UNCHANGED <<impl, call, f, open, handles, dtr, rts, dataLen, offset, files, loc,
                 ret, faults, closeLog, words, codec, answered, app>>

\* sync: what its checks make of the response (Nil: accepted)
syncCheck(response) ==
  IF response = << >> THEN Errorf("timeout reading sync response")
  ELSE IF Len(response) < 8 THEN Errorf("sync response too short")
  ELSE IF response[1] # 1 \/ response[2] # ESP_SYNC
       THEN Errorf("invalid sync response header")
  ELSE IF BadStatus(response)
       THEN [msg |-> <<"sync failed: status, error">>, seq |-> -1,
             status |-> StatusByte(response), code |-> ErrorByte(response)]
  ELSE Nil

sync_read ==
  /\ pc = "sync_read"
  /\ \E response \in ReadOutcomes(ESP_SYNC) :
       IF syncCheck(response) = Nil
       THEN /\ pc' = "sync_extra"
            /\ loc' = [loc EXCEPT !.i = 0]
            /\ UNCHANGED err
       ELSE /\ FlashDataReturn(Wrap("sync failed", syncCheck(response)))
            /\ UNCHANGED loc
  /\ ResponseRead
  /\ UNCHANGED <<impl, call, f, open, handles, dtr, rts, wire, dataLen, offset, files,
                 ret, faults, closeLog, words, codec, answered, app>>

\* a variant of sync_extra that inspects what it reads and fails on a timeout
sync_extraChecked ==
  /\ pc = "sync_extra"
  /\ \E w \in WriteOutcomes, response \in ReadOutcomes(ESP_SYNC) :
       /\ ~w => FaultAllowed
       /\ IF w THEN UNCHANGED faults ELSE FaultInjected
       /\ wire' = IF w THEN Append(wire, Packet(ESP_SYNC, << >>, NoChecksum)) ELSE wire
       /\ IF response = << >>
          THEN FlashDataReturn(Wrap("sync failed", Errorf("timeout reading sync response")))
          ELSE /\ pc' = IF loc.i + 1 < SYNC_EXTRA THEN "sync_extra"
                        ELSE IF impl = "flasher" THEN "detectChip" ELSE "spiAttach"
               /\ UNCHANGED err
  /\ loc' = [loc EXCEPT !.i = @ + 1]
  /\ UNCHANGED <<impl, call, f, open, handles, dtr, rts, dataLen, offset, files,
                 ret, closeLog, words, codec, pending, answered, app>>

\* sync: one of the 7 further SYNC requests with empty payload; the result of
\* the write and whatever is read after it are ignored
sync_extra ==
  /\ pc = "sync_extra"
  /\ \E w \in WriteOutcomes, response \in ReadOutcomes(ESP_SYNC) :
       /\ ~w => FaultAllowed
       /\ IF w THEN UNCHANGED faults ELSE FaultInjected
       /\ wire' = IF w THEN Append(wire, Packet(ESP_SYNC, << >>, NoChecksum)) ELSE wire
  /\ loc' = [loc EXCEPT !.i = @ + 1]
  /\ pc' = IF loc.i + 1 < SYNC_EXTRA THEN "sync_extra"
           ELSE IF impl = "flasher" THEN "detectChip" ELSE "spiAttach"
  /\ UNCHANGED <<impl, call, f, open, handles, dtr, rts, dataLen, offset, files, err,
                 ret, closeLog, words, codec, pending, answered, app>>

\* detectChip: READ_REG of the magic register is written
CHIP_DETECT_MAGIC_REG_ADDR == <<16384, 4096>>   \* 0x40001000

\* a variant of detectChipReturn in which FlashData gives up after the detection
detectChipReturnAborts(e) == FlashDataReturn(Wrap("chip detection failed", Errorf("no chip")))

\* FlashData's check of what detectChip returned: an error ends FlashData,
\* nil goes on with spiAttach
detectChipReturn(e) ==
  IF e # Nil THEN FlashDataReturn(Wrap("chip detection failed", e))
  ELSE pc' = "spiAttach" /\ UNCHANGED err

detectChip ==
  /\ pc = "detectChip"
  /\ \E w \in WriteOutcomes :
       /\ wire' = IF w THEN Append(wire, Packet(ESP_READ_REG,
                                                PutUint32(CHIP_DETECT_MAGIC_REG_ADDR),
                                                NoChecksum))
                  ELSE wire
       /\ f' = IF w THEN f ELSE [f EXCEPT !.chipType = "ESP32"]
       /\ IF w THEN pc' = "detectChip_read" /\ UNCHANGED err ELSE detectChipReturn(Nil)
  /\ loc' = [loc EXCEPT !.detect = << >>]
  /\ RequestWritten
  /\ UNCHANGED <<impl, call, open, handles, dtr, rts, dataLen, offset, files,
                 ret, faults, closeLog, words, codec, answered, app>>

\* the variant for a magic value; anything unknown is ESP32
ChipFromMagic(magic) ==
  CASE magic = ESP32_CHIP_MAGIC -> "ESP32"
    [] magic = ESP32S2_CHIP_MAGIC -> "ESP32-S2"
    [] magic = ESP32S3_CHIP_MAGIC -> "ESP32-S3"
    [] magic = ESP32C3_CHIP_MAGIC -> "ESP32-C3"
    [] OTHER -> "ESP32"

\* detectChip: the value of response bytes [8..12) is mapped; never an error.
\* loc.detect keeps what the read returned until spiAttach writes its request
detectChip_read ==
  /\ pc = "detectChip_read"
  /\ \E response \in ReadOutcomes(ESP_READ_REG)
                       \cup (IF PortOpen THEN {RegResp(ESP32_CHIP_MAGIC), RegResp(ESP32S3_CHIP_MAGIC)}
                             ELSE {}) :
       /\ f' = [f EXCEPT !.chipType =
                  IF ValidHeader(response, ESP_READ_REG) /\ Len(response) >= 12
                  THEN ChipFromMagic(Uint32At(response, 9)) ELSE "ESP32"]
       /\ loc' = [loc EXCEPT !.detect = response]
  /\ detectChipReturn(Nil)
  /\ ResponseRead
  /\ UNCHANGED <<impl, call, open, handles, dtr, rts, wire, dataLen, offset, files,
                 ret, faults, closeLog, words, codec, answered, app>>

\* spiAttach: SPI_ATTACH with 8 zero bytes is written
spiAttach ==
  /\ pc = "spiAttach"
  /\ \E w \in WriteOutcomes :
       IF w
       THEN /\ wire' = Append(wire, Packet(ESP_SPI_ATTACH, Zeros(8), NoChecksum))
            /\ pc' = "spiAttach_read"
            /\ UNCHANGED err
       ELSE /\ FlashDataReturn(Wrap("SPI attach failed",
                                    Errorf("failed to send SPI attach command")))
            /\ UNCHANGED wire
  /\ RequestWritten
  /\ loc' = [loc EXCEPT !.detect = << >>]
  /\ UNCHANGED <<impl, call, f, open, handles, dtr, rts, dataLen, offset, files,
                 ret, faults, closeLog, words, codec, answered, app>>

\* spiAttach: what its checks make of the response (Nil: accepted)
spiAttachCheck(response) ==
  IF response = << >> THEN Errorf("timeout waiting for SPI attach response")
  ELSE IF ~ValidHeader(response, ESP_SPI_ATTACH) THEN Errorf("invalid SPI attach response")
  ELSE IF BadStatus(response)
       THEN [msg |-> <<"SPI attach failed: status, error">>, seq |-> -1,
             status |-> StatusByte(response), code |-> ErrorByte(response)]
  ELSE Nil

spiAttach_read ==
  /\ pc = "spiAttach_read"
  /\ \E response \in ReadOutcomes(ESP_SPI_ATTACH) :
       /\ answered' = <<ESP_SPI_ATTACH, response>>
       /\ LET e == spiAttachCheck(response)
          IN  IF e = Nil
              THEN /\ pc' = IF impl = "flasher" THEN "flashBegin" ELSE "protocol_flashBegin"
                   /\ UNCHANGED err
              ELSE FlashDataReturn(Wrap("SPI attach failed", e))
  /\ ResponseRead
  /\ UNCHANGED <<impl, call, f, open, handles, dtr, rts, wire, dataLen, offset, files,
                 loc, ret, faults, closeLog, words, codec, app>>

\* flashBegin (flasher file): FLASH_BEGIN with the four words is written
flashBegin ==
  /\ pc = "flashBegin"
  /\ \E w \in WriteOutcomes :
       IF w
       THEN /\ wire' = Append(wire, Packet(ESP_FLASH_BEGIN,
                                flashBeginData(ToUint32(dataLen), offset, f.blockSize),
                                NoChecksum))
            /\ pc' = "flashBegin_read"
            /\ UNCHANGED err
       ELSE /\ FlashDataReturn(Wrap("flash begin failed",
                                    Errorf("failed to send flash begin")))
            /\ UNCHANGED wire
  /\ RequestWritten
  /\ answered' = << >>
  /\ UNCHANGED <<impl, call, f, open, handles, dtr, rts, dataLen, offset, files, loc,
                 ret, faults, closeLog, words, codec, app>>

\* flashBegin: what its checks make of the response (Nil: accepted)
flashBeginCheck(response) ==
  IF response = << >> THEN Errorf("flash begin timeout")
  ELSE IF ~ValidHeader(response, ESP_FLASH_BEGIN) THEN Errorf("invalid flash begin response")
  ELSE IF BadStatus(response)
       THEN [msg |-> <<"flash begin failed with status">>, seq |-> -1,
             status |-> StatusByte(response), code |-> -1]
  ELSE Nil

\* a variant of BlockLocals whose checksum covers the data header as well
BlockLocalsChecksumPayload(seq, blockSize) ==
  LET block == Block(seq, SmallInt(dataLen), blockSize)
  IN  [seq |-> seq, attempt |-> 0, i |-> 0,
       payload |-> FlashDataPayload(block, seq),
       checksum |-> calculateChecksum(FlashDataPayload(block, seq)),
       read |-> FALSE, response |-> <<>>,
       resets |-> <<>>, detect |-> <<>>]

\* the locals of flashData(block, seq) at its entry: payload and checksum
BlockLocals(seq, blockSize) ==
  LET block == Block(seq, SmallInt(dataLen), blockSize)
  IN  [seq |-> seq, attempt |-> 0, i |-> 0,
       payload |-> FlashDataPayload(block, seq),
       checksum |-> calculateChecksum(block),
       read |-> FALSE, response |-> <<>>,
       resets |-> <<>>, detect |-> <<>>]

\* FlashData's loop head: the next block goes to flashData, or the loop ends
EnterBlock(seq, blockSize, dataPc, endPc) ==
  IF seq < TotalBlocks(dataLen, blockSize)
  THEN /\ loc' = BlockLocals(seq, blockSize)
       /\ pc' = dataPc
  ELSE /\ loc' = [NoLocals EXCEPT !.seq = seq]
       /\ pc' = endPc

flashBegin_read ==
  /\ pc = "flashBegin_read"
  /\ \E response \in ReadOutcomes(ESP_FLASH_BEGIN) :
       /\ answered' = <<ESP_FLASH_BEGIN, response>>
       /\ LET e == flashBeginCheck(response)
          IN  IF e = Nil
              THEN /\ EnterBlock(0, f.blockSize, "flashData", "flashEnd")
                   /\ UNCHANGED err
              ELSE /\ FlashDataReturn(Wrap("flash begin failed", e))
                   /\ UNCHANGED loc
  /\ ResponseRead
  /\ UNCHANGED <<impl, call, f, open, handles, dtr, rts, wire, dataLen, offset, files,
                 ret, faults, closeLog, words, codec, app>>

\* a variant of flashData that writes the next attempt without reading
flashDataNoRead ==
  /\ pc = "flashData"
  /\ wire' = Append(wire, Packet(ESP_FLASH_DATA, loc.payload, loc.checksum))
  /\ IF loc.attempt = FLASH_DATA_ATTEMPTS - 1
     THEN pc' = "flashData_read" /\ UNCHANGED loc
     ELSE loc' = [loc EXCEPT !.attempt = @ + 1] /\ UNCHANGED pc
  /\ RequestWritten
  /\ answered' = << >>
  /\ UNCHANGED <<impl, call, f, open, handles, dtr, rts, dataLen, offset, files, err,
                 ret, faults, closeLog, words, codec, app>>

\* flashData: one pass of the attempt loop up to the write
flashData ==
  /\ pc = "flashData"
  /\ \E w \in WriteOutcomes :
       IF w
       THEN /\ wire' = Append(wire, Packet(ESP_FLASH_DATA, loc.payload, loc.checksum))
            /\ pc' = "flashData_read"
            /\ UNCHANGED <<err, loc, faults>>
       ELSE /\ UNCHANGED wire
            /\ IF loc.attempt = FLASH_DATA_ATTEMPTS - 1
               THEN /\ FlashDataReturn(Wrap("flash data failed at block",
                          Errorf("failed to send flash data after 3 attempts")))
                    /\ UNCHANGED <<loc, faults>>
               ELSE /\ FaultAllowed
                    /\ FaultInjected
                    /\ loc' = [loc EXCEPT !.attempt = @ + 1]
                    /\ UNCHANGED <<pc, err>>
  /\ RequestWritten
  /\ answered' = << >>
  /\ UNCHANGED <<impl, call, f, open, handles, dtr, rts, dataLen, offset, files,
                 ret, closeLog, words, codec, app>>

\* a variant of flashDataOutcome that treats a failed status like a bad header
flashDataOutcomeRetryStatus(response, attempt, seq) ==
  IF response = << >> \/ ~ValidHeader(response, ESP_FLASH_DATA) \/ BadStatus(response)
  THEN IF attempt = FLASH_DATA_ATTEMPTS - 1
       THEN [kind |-> "fail",
             e |-> [Errorf("invalid flash data response at seq") EXCEPT !.seq = seq]]
       ELSE [kind |-> "retry", e |-> Nil]
  ELSE [kind |-> "ok", e |-> Nil]

\* flashData: what the rest of the pass makes of the read: "retry" (continue),
\* "ok" (return nil) or "fail" (return e)
flashDataOutcome(response, attempt, seq) ==
  IF response = << >>
  THEN IF attempt = FLASH_DATA_ATTEMPTS - 1
       THEN [kind |-> "fail", e |-> [Errorf("flash data timeout at seq") EXCEPT !.seq = seq]]
       ELSE [kind |-> "retry", e |-> Nil]
  ELSE IF ~ValidHeader(response, ESP_FLASH_DATA)
  THEN IF attempt = FLASH_DATA_ATTEMPTS - 1
       THEN [kind |-> "fail",
             e |-> [Errorf("invalid flash data response at seq") EXCEPT !.seq = seq]]
       ELSE [kind |-> "retry", e |-> Nil]
  ELSE IF BadStatus(response)
  THEN [kind |-> "fail",
        e |-> [msg |-> <<"flash data failed at seq with status">>, seq |-> seq,
               status |-> StatusByte(response), code |-> -1]]
  ELSE [kind |-> "ok", e |-> Nil]

flashData_read ==
  /\ pc = "flashData_read"
  /\ \E response \in ReadOutcomes(ESP_FLASH_DATA) :
       /\ answered' = <<ESP_FLASH_DATA, response>>
       /\ LET out == flashDataOutcome(response, loc.attempt, loc.seq)
          IN  CASE out.kind = "retry" ->
                     /\ FaultAllowed
                     /\ FaultInjected
                     /\ loc' = [loc EXCEPT !.attempt = @ + 1, !.read = TRUE,
                                            !.response = response]
                     /\ pc' = "flashData"
                     /\ UNCHANGED err
                [] out.kind = "ok" ->
                     /\ EnterBlock(loc.seq + 1, f.blockSize, "flashData", "flashEnd")
                     /\ UNCHANGED <<err, faults>>
                [] OTHER ->
                     /\ FlashDataReturn(Wrap("flash data failed at block", out.e))
                     /\ loc' = [loc EXCEPT !.read = TRUE, !.response = response]
                     /\ UNCHANGED faults
  /\ ResponseRead
  /\ UNCHANGED <<impl, call, f, open, handles, dtr, rts, wire, dataLen, offset, files,
                 ret, closeLog, words, codec, app>>

\* flashEnd: FLASH_END with the word 0 is written
flashEnd ==
  /\ pc = "flashEnd"
  /\ \E w \in WriteOutcomes :
       IF w
       THEN /\ wire' = Append(wire, Packet(ESP_FLASH_END, PutUint32(<<0, 0>>), NoChecksum))
            /\ pc' = "flashEnd_read"
            /\ UNCHANGED err
       ELSE /\ FlashDataReturn(Wrap("flash end failed", Errorf("failed to send flash end")))
            /\ UNCHANGED wire
  /\ RequestWritten
  /\ answered' = << >>
  /\ UNCHANGED <<impl, call, f, open, handles, dtr, rts, dataLen, offset, files, loc,
                 ret, faults, closeLog, words, codec, app>>

\* flashEnd: timeout and header are checked, the status is not
flashEndCheck(response) ==
  IF response = << >> THEN Errorf("flash end timeout")
  ELSE IF ~ValidHeader(response, ESP_FLASH_END) THEN Errorf("invalid flash end response")
  ELSE Nil

flashEnd_read ==
  /\ pc = "flashEnd_read"
  /\ \E response \in ReadOutcomes(ESP_FLASH_END) :
       /\ answered' = <<ESP_FLASH_END, response>>
       /\ LET e == flashEndCheck(response)
          IN  FlashDataReturn(IF e = Nil THEN Nil ELSE Wrap("flash end failed", e))
  /\ ResponseRead
  /\ UNCHANGED <<impl, call, f, open, handles, dtr, rts, wire, dataLen, offset, files,
                 loc, ret, faults, closeLog, words, codec, app>>

----------------------------------------------------------------------------
(* The current program *)

Next ==
  \/ Flash
  \/ FlashMultipleFiles
  \/ NewESP32FlasherWithProgress
  \/ hardReset
  \/ hardResetInverted
  \/ alternativeReset
  \/ aggressiveReset
  \/ finalTestSync
  \/ NewESP32FlasherManual
  \/ manualTestSync
  \/ SetBaudRate
  \/ SetBaudRate_read
  \/ NextFile
  \/ FlashData
  \/ sync
  \/ sync_read
  \/ sync_extra
  \/ detectChip
  \/ detectChip_read
  \/ spiAttach
  \/ spiAttach_read
  \/ flashBegin
  \/ flashBegin_read
  \/ flashData
  \/ flashData_read
  \/ flashEnd
  \/ flashEnd_read
  \/ RebootTarget
  \/ RebootTarget_release
  \/ DeferredClose

Spec == Init /\ [][Next]_vars

----------------------------------------------------------------------------
(* The session as esp32_protocol.go implements it, and the Flash that drives it *)

ProtocolImageSizes == {0, 1025, (MaxBlocks - 1) * 1024 + 4}

InitProtocol == InitCommon /\ impl = "protocol" /\ codec = << >>

\* App.Flash: os.Stat, os.ReadFile, then the constructor
protocol_Flash ==
  /\ pc = "idle"
  /\ impl = "protocol"
  /\ call' = "Flash"
  /\ \E file \in {"missing", "unreadable", "ok"}, n \in ProtocolImageSizes :
       /\ dataLen' = IF file = "ok" THEN IntFromNat(n) ELSE dataLen
       /\ offset' = IF file = "ok" THEN APP_OFFSET ELSE offset
       /\ ret' = CASE file = "missing" -> Errorf("file does not exist")
                   [] file = "unreadable" -> Errorf("failed to read file")
                   [] OTHER -> ret
       /\ pc' = IF file = "ok" THEN "protocol_NewESP32FlasherWithProgress" ELSE "returned"
  /\ UNCHANGED <<impl, f, open, handles, dtr, rts, wire, files, loc, err, faults,
                 closeLog, words, codec, pending, answered, app>>

\* NewESP32FlasherWithProgress: serial.Open and the ESP32Flasher literal; a
\* failed open is returned, which Flash wraps and returns
protocol_NewESP32FlasherWithProgress ==
  /\ pc = "protocol_NewESP32FlasherWithProgress"
  /\ \E ok \in BOOLEAN, lines \in LineStatesAtOpen :
       /\ handles' = IF ok THEN handles + 1 ELSE handles
       /\ open' = IF ok THEN open \cup {handles + 1} ELSE open
       /\ f' = IF ok THEN [port |-> handles + 1, chipType |-> "Unknown", blockSize |-> 0]
               ELSE f
       /\ dtr' = IF ok THEN lines[1] ELSE dtr
       /\ rts' = IF ok THEN lines[2] ELSE rts
       /\ ret' = IF ok THEN ret
                 ELSE Wrap("failed to create flasher", Errorf("failed to open port"))
       /\ pc' = IF ok THEN "espressifReferenceReset" ELSE "returned"
  /\ wire' = << >>
  /\ UNCHANGED <<impl, call, dataLen, offset, files, loc, err, faults, closeLog, words, codec, pending, answered, app>>

\* testBootloaderMode: the boot output read is classified (application
\* markers: false at once), then one SYNC: a valid SYNC header is true, and
\* a failed write, a timeout or anything else leaves the classification
testBootloaderMode(ind, w, response) ==
  IF ind = "negative" THEN FALSE
  ELSE IF w /\ response # << >> /\ Len(response) >= 8 /\ response[1] = 1
          /\ response[2] = ESP_SYNC
       THEN TRUE
       ELSE ind = "positive"

\* enterBootloader, first half: espressifReferenceReset leaves DTR = false,
\* RTS = false, then testBootloaderMode
espressifReferenceReset ==
  /\ pc = "espressifReferenceReset"
  /\ \E ind \in {"none", "positive", "negative"}, w \in WriteOutcomes,
        response \in ReadOutcomes(ESP_SYNC) :
       /\ SetLines(FALSE, FALSE)
       /\ wire' = IF ind # "negative" /\ w
                  THEN Append(wire, Packet(ESP_SYNC, syncData, NoChecksum)) ELSE wire
       /\ pc' = IF testBootloaderMode(ind, w, response) THEN "protocol_FlashData"
                ELSE "espressifReferenceResetInverted"
  /\ UNCHANGED <<impl, call, f, open, handles, dataLen, offset, files, loc, err, ret,
                 faults, closeLog, words, codec, pending, answered, app>>

\* enterBootloader, second half: espressifReferenceResetInverted leaves
\* DTR = true, RTS = true, then testBootloaderMode; on failure the constructor
\* returns the error, which Flash wraps and returns
espressifReferenceResetInverted ==
  /\ pc = "espressifReferenceResetInverted"
  /\ \E ind \in {"none", "positive", "negative"}, w \in WriteOutcomes,
        response \in ReadOutcomes(ESP_SYNC) :
       /\ SetLines(TRUE, TRUE)
       /\ wire' = IF ind # "negative" /\ w
                  THEN Append(wire, Packet(ESP_SYNC, syncData, NoChecksum)) ELSE wire
       /\ IF testBootloaderMode(ind, w, response)
          THEN /\ pc' = "protocol_FlashData"
               /\ UNCHANGED ret
          ELSE /\ ret' = Wrap("failed to create flasher",
                              Wrap("ESP32 not in bootloader mode",
                                   Errorf("failed to enter bootloader mode")))
               /\ pc' = "returned"
  /\ UNCHANGED <<impl, call, f, open, handles, dataLen, offset, files, loc, err,
                 faults, closeLog, words, codec, pending, answered, app>>

\* FlashData: wakeupESP32 and testConnection write raw bytes (no command) and
\* their outcome is ignored; step 1 is sync
protocol_FlashData ==
  /\ pc = "protocol_FlashData"
  /\ wire' = << >>
  /\ loc' = NoLocals
  /\ pc' = "sync"
  /\ UNCHANGED <<impl, call, f, open, handles, dtr, rts, dataLen, offset, files, err,
                 ret, faults, closeLog, words, codec, pending, answered, app>>

\* flashBegin: FLASH_BEGIN with the four words is written
protocol_flashBegin ==
  /\ pc = "protocol_flashBegin"
  /\ \E w \in WriteOutcomes :
       IF w
       THEN /\ wire' = Append(wire, Packet(ESP_FLASH_BEGIN,
                                protocolFlashBeginData(ToUint32(dataLen), offset),
                                NoChecksum))
            /\ pc' = "protocol_flashBegin_read"
            /\ UNCHANGED err
       ELSE /\ FlashDataReturn(Wrap("flash begin failed",
                                    Errorf("failed to send flash begin command")))
            /\ UNCHANGED wire
  /\ RequestWritten
  /\ answered' = << >>
  /\ UNCHANGED <<impl, call, f, open, handles, dtr, rts, dataLen, offset, files, loc,
                 ret, faults, closeLog, words, codec, app>>

protocolFlashBeginCheck(response) ==
  IF response = << >> THEN Errorf("flash begin timeout")
  ELSE IF ~ValidHeader(response, ESP_FLASH_BEGIN)
       THEN Errorf("flash begin failed: invalid response")
  ELSE IF BadStatus(response)
       THEN [msg |-> <<"flash begin failed: status, error">>, seq |-> -1,
             status |-> StatusByte(response), code |-> ErrorByte(response)]
  ELSE Nil

\* FlashData's loop head: for i := 0; i < len(data); i += blockSize, seq++
protocolEnterBlock(seq) ==
  IF seq * PROTOCOL_BLOCK_SIZE < SmallInt(dataLen)
  THEN /\ loc' = BlockLocals(seq, PROTOCOL_BLOCK_SIZE)
       /\ pc' = "protocol_flashData"
  ELSE /\ loc' = [NoLocals EXCEPT !.seq = seq]
       /\ pc' = "protocol_flashEnd"

protocol_flashBegin_read ==
  /\ pc = "protocol_flashBegin_read"
  /\ \E response \in ReadOutcomes(ESP_FLASH_BEGIN) :
       LET e == protocolFlashBeginCheck(response)
       IN  IF e = Nil
           THEN /\ protocolEnterBlock(0)
                /\ UNCHANGED err
           ELSE /\ FlashDataReturn(Wrap("flash begin failed", e))
                /\ UNCHANGED loc
  /\ ResponseRead
  /\ UNCHANGED <<impl, call, f, open, handles, dtr, rts, wire, dataLen, offset, files,
                 ret, faults, closeLog, words, codec, answered, app>>

\* flashData: one pass of the attempt loop up to the write
protocol_flashData ==
  /\ pc = "protocol_flashData"
  /\ \E w \in WriteOutcomes :
       IF w
       THEN /\ wire' = Append(wire, Packet(ESP_FLASH_DATA, loc.payload, loc.checksum))
            /\ pc' = "protocol_flashData_read"
            /\ UNCHANGED <<err, loc, faults>>
       ELSE /\ UNCHANGED wire
            /\ IF loc.attempt = FLASH_DATA_ATTEMPTS - 1
               THEN /\ FlashDataReturn(Wrap("flash data failed at block",
                          Errorf("failed to send flash data after 3 attempts")))
                    /\ UNCHANGED <<loc, faults>>
               ELSE /\ FaultAllowed
                    /\ FaultInjected
                    /\ loc' = [loc EXCEPT !.attempt = @ + 1]
                    /\ UNCHANGED <<pc, err>>
  /\ RequestWritten
  /\ UNCHANGED <<impl, call, f, open, handles, dtr, rts, dataLen, offset, files,
                 ret, closeLog, words, codec, answered, app>>

\* flashData: what the rest of the pass makes of the read; a failed status
\* is reported with its error code
protocolFlashDataOutcome(response, attempt, seq) ==
  IF response = << >>
  THEN IF attempt = FLASH_DATA_ATTEMPTS - 1
       THEN [kind |-> "fail",
             e |-> [Errorf("timeout reading flash data response at seq") EXCEPT !.seq = seq]]
       ELSE [kind |-> "retry", e |-> Nil]
  ELSE IF ~ValidHeader(response, ESP_FLASH_DATA)
  THEN IF attempt = FLASH_DATA_ATTEMPTS - 1
       THEN [kind |-> "fail",
             e |-> [Errorf("invalid flash data response at sequence") EXCEPT !.seq = seq]]
       ELSE [kind |-> "retry", e |-> Nil]
  ELSE IF BadStatus(response)
  THEN [kind |-> "fail",
        e |-> [msg |-> <<"flash data failed at seq: status, error">>, seq |-> seq,
               status |-> StatusByte(response), code |-> ErrorByte(response)]]
  ELSE [kind |-> "ok", e |-> Nil]

protocol_flashData_read ==
  /\ pc = "protocol_flashData_read"
  /\ \E response \in ReadOutcomes(ESP_FLASH_DATA) :
       LET out == protocolFlashDataOutcome(response, loc.attempt, loc.seq)
       IN  CASE out.kind = "retry" ->
                  /\ FaultAllowed
                  /\ FaultInjected
                  /\ loc' = [loc EXCEPT !.attempt = @ + 1, !.read = TRUE,
                                         !.response = response]
                  /\ pc' = "protocol_flashData"
                  /\ UNCHANGED err
             [] out.kind = "ok" ->
                  /\ protocolEnterBlock(loc.seq + 1)
                  /\ UNCHANGED <<err, faults>>
             [] OTHER ->
                  /\ FlashDataReturn(Wrap("flash data failed at block", out.e))
                  /\ loc' = [loc EXCEPT !.read = TRUE, !.response = response]
                  /\ UNCHANGED faults
  /\ ResponseRead
  /\ UNCHANGED <<impl, call, f, open, handles, dtr, rts, wire, dataLen, offset, files,
                 ret, closeLog, words, codec, answered, app>>

\* flashEnd: FLASH_END with the word 0 is written
protocol_flashEnd ==
  /\ pc = "protocol_flashEnd"
  /\ \E w \in WriteOutcomes :
       IF w
       THEN /\ wire' = Append(wire, Packet(ESP_FLASH_END, PutUint32(<<0, 0>>), NoChecksum))
            /\ pc' = "protocol_flashEnd_read"
            /\ UNCHANGED err
       ELSE /\ FlashDataReturn(Wrap("flash end failed", Errorf("write failed")))
            /\ UNCHANGED wire
  /\ RequestWritten
  /\ UNCHANGED <<impl, call, f, open, handles, dtr, rts, dataLen, offset, files, loc,
                 ret, faults, closeLog, words, codec, answered, app>>

\* flashEnd: timeout and header are checked, the status is not
protocolFlashEndCheck(response) ==
  IF response = << >> THEN Errorf("timeout")
  ELSE IF ~ValidHeader(response, ESP_FLASH_END) THEN Errorf("flash end failed")
  ELSE Nil

protocol_flashEnd_read ==
  /\ pc = "protocol_flashEnd_read"
  /\ \E response \in ReadOutcomes(ESP_FLASH_END) :
       LET e == protocolFlashEndCheck(response)
       IN  FlashDataReturn(IF e = Nil THEN Nil ELSE Wrap("flash end failed", e))
  /\ ResponseRead
  /\ UNCHANGED <<impl, call, f, open, handles, dtr, rts, wire, dataLen, offset, files,
                 loc, ret, faults, closeLog, words, codec, answered, app>>

NextProtocol ==
  \/ protocol_Flash
  \/ protocol_NewESP32FlasherWithProgress
  \/ espressifReferenceReset
  \/ espressifReferenceResetInverted
  \/ protocol_FlashData
  \/ sync
  \/ sync_read
  \/ sync_extra
  \/ spiAttach
  \/ spiAttach_read
  \/ protocol_flashBegin
  \/ protocol_flashBegin_read
  \/ protocol_flashData
  \/ protocol_flashData_read
  \/ protocol_flashEnd
  \/ protocol_flashEnd_read
  \/ DeferredClose

SpecProtocol == InitProtocol /\ [][NextProtocol]_vars

----------------------------------------------------------------------------
(* The size arithmetic of flashBegin and FlashData over the 32-bit range *)

\* len(data) = top * 2^32 + hi * 2^16 + lo
SizeTops == {0, 1}
SizeHighs == {0, 1, 32767, 32768, 65535}
SizeLows == {0, 1, 1023, 1024, 1025, 4095, 4096, 4097, 4100, 61440, 61441, 64512,
             64513, 65535}

InitSize ==
  /\ pc = "FlashData"
  /\ impl \in {"flasher", "protocol"}
  /\ call = "none"
  /\ f = [port |-> 1, chipType |-> "Unknown",
          blockSize |-> IF impl = "flasher" THEN ESP_FLASH_WRITE_SIZE ELSE 0]
  /\ open = {1}
  /\ handles = 1
  /\ dtr = FALSE
  /\ rts = FALSE
  /\ wire = << >>
  /\ dataLen \in SizeTops \X SizeHighs \X SizeLows
  /\ offset = APP_OFFSET
  /\ files = {}
  /\ loc = NoLocals
  /\ err = Nil
  /\ ret = Nil
  /\ faults = 0
  /\ closeLog = << >>
  /\ words = << >>
  /\ codec = << >>
  /\ pending = 0
  /\ answered = << >>
  /\ app = << >>

\* flashBegin(uint32(len(data)), offset) of the flasher file up to its payload,
\* and totalBlocks of FlashData
flashBeginWords ==
  /\ pc = "FlashData"
  /\ impl = "flasher"
  /\ words' = [begin |-> flashBeginData(ToUint32(dataLen), offset, f.blockSize),
               totalBlocks |-> TotalBlocks(dataLen, f.blockSize)]
  /\ pc' = "flashBegin"
  /\ UNCHANGED <<impl, call, f, open, handles, dtr, rts, wire, dataLen, offset, files,
                 loc, err, ret, faults, closeLog, codec, pending, answered, app>>

\* the same of esp32_protocol.go
protocol_flashBeginWords ==
  /\ pc = "FlashData"
  /\ impl = "protocol"
  /\ words' = [begin |-> protocolFlashBeginData(ToUint32(dataLen), offset),
               totalBlocks |-> TotalBlocks(dataLen, PROTOCOL_BLOCK_SIZE)]
  /\ pc' = "flashBegin"
  /\ UNCHANGED <<impl, call, f, open, handles, dtr, rts, wire, dataLen, offset, files,
                 loc, err, ret, faults, closeLog, codec, pending, answered, app>>

NextSize ==
  \/ flashBeginWords
  \/ protocol_flashBeginWords

SpecSize == InitSize /\ [][NextSize]_vars

----------------------------------------------------------------------------
(* slipEncode and slipDecode applied to byte strings *)

\* the bytes the codec treats specially, and an ordinary one
SlipBytes == {SLIP_END, SLIP_ESC, SLIP_ESC_END, SLIP_ESC_ESC, 65}

\* the byte strings of length n over SlipBytes
SlipStrings(n) == [1..n -> SlipBytes]

InitSlip ==
  /\ InitCommon
  /\ impl = "protocol"
  /\ \E n \in 0..MaxSlipLen : \E x \in SlipStrings(n) :
       codec = [data |-> x, encoded |-> << >>, decoded |-> [data |-> << >>, err |-> "none"]]

\* slipEncode(data)
roundTrip_slipEncode ==
  /\ pc = "idle"
  /\ codec' = [codec EXCEPT !.encoded = slipEncode(codec.data)]
  /\ pc' = "encoded"
  /\ UNCHANGED <<impl, call, f, open, handles, dtr, rts, wire, dataLen, offset, files,
                 loc, err, ret, faults, closeLog, words, pending, answered, app>>

\* slipDecode of what slipEncode returned
roundTrip_slipDecode ==
  /\ pc = "encoded"
  /\ codec' = [codec EXCEPT !.decoded = slipDecode(codec.encoded)]
  /\ pc' = "roundtrip"
  /\ UNCHANGED <<impl, call, f, open, handles, dtr, rts, wire, dataLen, offset, files,
                 loc, err, ret, faults, closeLog, words, pending, answered, app>>

\* slipDecode(data) of the byte string as it is (a frame read from the port)
frame_slipDecode ==
  /\ pc = "idle"
  /\ codec' = [codec EXCEPT !.decoded = slipDecode(codec.data)]
  /\ pc' = "decoded"
  /\ UNCHANGED <<impl, call, f, open, handles, dtr, rts, wire, dataLen, offset, files,
                 loc, err, ret, faults, closeLog, words, pending, answered, app>>

NextSlip ==
  \/ roundTrip_slipEncode
  \/ roundTrip_slipDecode
  \/ frame_slipDecode

SpecSlip == InitSlip /\ [][NextSlip]_vars

----------------------------------------------------------------------------
(* The packet sendCommand builds *)

CommandCmds == {0, ESP_FLASH_BEGIN, ESP_FLASH_DATA, ESP_SYNC, 255}
CommandLens == {0, 1, 36, 1040, 65535, 65536}
CommandChecksums == {<<0, 0>>, <<0, CHECKSUM_SEED>>, <<65535, 65535>>}

\* a payload of n bytes
CommandData(n) == [i \in 1..n |-> (7 * i + 1) % 256]

InitCommand ==
  /\ InitCommon
  /\ impl = "protocol"
  /\ \E c \in CommandCmds, n \in CommandLens, k \in CommandChecksums :
       codec = [cmd |-> c, data |-> CommandData(n), checksum |-> k, packet |-> << >>]

\* sendCommand(cmd, data, checksum) up to the packet it hands to slipEncode
sendCommand ==
  /\ pc = "idle"
  /\ codec' = [codec EXCEPT !.packet = Packet(codec.cmd, codec.data, codec.checksum)]
  /\ pc' = "sent"
  /\ UNCHANGED <<impl, call, f, open, handles, dtr, rts, wire, dataLen, offset, files,
                 loc, err, ret, faults, closeLog, words, pending, answered, app>>

NextCommand == sendCommand

SpecCommand == InitCommand /\ [][NextCommand]_vars

----------------------------------------------------------------------------
(* Vocabulary of the properties *)

IsSync(p) == PacketCmd(p) = ESP_SYNC
IsBegin(p) == PacketCmd(p) = ESP_FLASH_BEGIN
IsData(p) == PacketCmd(p) = ESP_FLASH_DATA
IsEnd(p) == PacketCmd(p) = ESP_FLASH_END

DataPackets == SelectSeq(wire, IsData)
BeginPackets == SelectSeq(wire, IsBegin)
EndPackets == SelectSeq(wire, IsEnd)

\* the seq field of a FLASH_DATA packet as a number
SeqOf(p) == PacketSeq(p)[1] * Limb + PacketSeq(p)[2]

\* the seq values written so far
SeqsWritten == {SeqOf(DataPackets[i]) : i \in 1..Len(DataPackets)}

\* how often block k was transmitted
TransmissionsOf(k) ==
  Cardinality({i \in 1..Len(wire) : IsData(wire[i]) /\ SeqOf(wire[i]) = k})

\* ceil(n / d)
Ceil(n, d) == (n \div d) + (IF n % d = 0 THEN 0 ELSE 1)

ImageLen == SmallInt(dataLen)

\* the stage of FlashData the control is in (0: outside FlashData)
PcStage ==
  CASE pc \in {"sync", "sync_read", "sync_extra"} -> 1
    [] pc \in {"detectChip", "detectChip_read"} -> 2
    [] pc \in {"spiAttach", "spiAttach_read"} -> 3
    [] pc \in {"flashBegin", "flashBegin_read"} -> 4
    [] pc \in {"flashData", "flashData_read"} -> 5
    [] pc \in {"flashEnd", "flashEnd_read"} -> 6
    [] OTHER -> 0

InFlashData == PcStage > 0

\* the stage a command belongs to
Rank(p) ==
  CASE PacketCmd(p) = ESP_SYNC -> 1
    [] PacketCmd(p) = ESP_READ_REG -> 2
    [] PacketCmd(p) = ESP_SPI_ATTACH -> 3
    [] PacketCmd(p) = ESP_FLASH_BEGIN -> 4
    [] PacketCmd(p) = ESP_FLASH_DATA -> 5
    [] PacketCmd(p) = ESP_FLASH_END -> 6
    [] OTHER -> 0

\* the error the App call is about to return or has returned
Outcome == IF pc = "returned" THEN ret ELSE err

\* FlashData returned an error to the App call
FlashFailed ==
  /\ pc \in {"Close", "returned"}
  /\ Len(Outcome.msg) >= 2
  /\ Outcome.msg[1] \in {"failed to flash", "failed to flash file"}

\* the stage whose failure the error names
ErrStage(e) ==
  CASE e.msg[2] = "sync failed" -> 1
    [] e.msg[2] = "chip detection failed" -> 2
    [] e.msg[2] = "SPI attach failed" -> 3
    [] e.msg[2] = "flash begin failed" -> 4
    [] e.msg[2] = "flash data failed at block" -> 5
    [] e.msg[2] = "flash end failed" -> 6
    [] OTHER -> 0

\* FlashData has just returned nil to the App call
FlashDataSucceeded ==
  \/ pc = "RebootTarget" /\ call = "Flash"
  \/ pc = "files" /\ wire # << >> /\ IsEnd(wire[Len(wire)])

\* a read outcome that flashData answers with another attempt
Retryable(r) == r = << >> \/ Len(r) < 8 \/ r[1] # 1 \/ r[2] # ESP_FLASH_DATA

----------------------------------------------------------------------------
(* Properties *)

\* C1: in FlashData the seq fields of the FLASH_DATA packets written, in
\* order, start at 0 and each packet either repeats the previous packet
\* unchanged (a retry: same seq, payload and checksum) or carries the next
\* seq; no seq reaches num_blocks = ceil(n/1024), and once the data loop is
\* through the last seq written is num_blocks - 1.
C1_SeqOrder ==
  InFlashData =>
    LET d == DataPackets
        nb == Ceil(ImageLen, 1024)
    IN  /\ \A i \in 1..Len(d) : SeqOf(d[i]) < nb
        /\ Len(d) > 0 => SeqOf(d[1]) = 0
        /\ \A i \in 1..(Len(d) - 1) :
             d[i + 1] = d[i] \/ SeqOf(d[i + 1]) = SeqOf(d[i]) + 1
        /\ PcStage = 6 => SeqsWritten = 0..(nb - 1)

\* the 4100-byte image is through its data loop with a block sent twice
C1_Witness ==
  /\ pc = "flashEnd"
  /\ ImageLen = 4100
  /\ SeqsWritten = 0..4
  /\ \E i \in 1..(Len(DataPackets) - 1) :
       /\ DataPackets[i + 1] = DataPackets[i]
       /\ i + 2 <= Len(DataPackets)

\* the FLASH_BEGIN payload the claim expects for n bytes at offset o
ExpectedBegin(n, o) ==
  PutUint32(U32FromNat(Ceil(n, 4096) * 4096)) \o PutUint32(U32FromNat(Ceil(n, 1024)))
    \o PutUint32(U32FromNat(1024)) \o PutUint32(o)

\* C2: FlashData writes at most one FLASH_BEGIN, whose words are
\* (erase_size, num_blocks, 1024, offset); every FLASH_DATA comes after it
\* and none while its response is still awaited; at most one FLASH_END, with
\* payload [0,0,0,0], written last and only once every block was accepted;
\* a successful FlashData has written exactly one of each and all the blocks.
C2_BeginDataEnd ==
  (InFlashData \/ FlashDataSucceeded) =>
    /\ Len(BeginPackets) <= 1
    /\ Len(EndPackets) <= 1
    /\ \A i \in 1..Len(wire) :
         /\ IsBegin(wire[i]) => PacketData(wire[i]) = ExpectedBegin(ImageLen, offset)
         /\ IsData(wire[i]) => \E j \in 1..(i - 1) : IsBegin(wire[j])
         /\ IsEnd(wire[i]) => i = Len(wire) /\ PacketData(wire[i]) = <<0, 0, 0, 0>>
    /\ PcStage \in 1..4 => DataPackets = << >>
    /\ EndPackets # << >> =>
         /\ PcStage \notin 1..5
         /\ SeqsWritten = 0..(Ceil(ImageLen, 1024) - 1)
    /\ FlashDataSucceeded =>
         /\ Len(BeginPackets) = 1
         /\ Len(EndPackets) = 1
         /\ SeqsWritten = 0..(Ceil(ImageLen, 1024) - 1)

\* App.Flash has flashed 4100 bytes at 0x10000: (8192, 5, 1024, 0x10000),
\* seqs 0..4, FLASH_END [0,0,0,0]
C2_Witness ==
  /\ pc = "RebootTarget"
  /\ call = "Flash"
  /\ ImageLen = 4100
  /\ Len(BeginPackets) = 1
  /\ PacketData(BeginPackets[1]) = <<0, 32, 0, 0, 5, 0, 0, 0, 0, 4, 0, 0, 0, 0, 1, 0>>
  /\ SeqsWritten = 0..4
  /\ PacketData(wire[Len(wire)]) = <<0, 0, 0, 0>>
  /\ IsEnd(wire[Len(wire)])

\* the image length of the size arithmetic as ceil(n / 1024), n < 2^32
CeilBlocks1024 ==
  dataLen[2] * 64 + (dataLen[3] \div 1024) + (IF dataLen[3] % 1024 = 0 THEN 0 ELSE 1)

\* C3: for every image size n >= 0 (here: every n below 2^32) the num_blocks
\* word flashBegin puts into FLASH_BEGIN equals ceil(n / 1024).
C3_NumBlocksIsCeil ==
  (pc = "flashBegin" /\ dataLen[1] = 0) =>
    Uint32At(words.begin, 5) = U32FromNat(CeilBlocks1024)

\* C4: for every image size n that fits 32 bits the erase_size word flashBegin
\* puts into FLASH_BEGIN is a multiple of 4096 and is >= n.
C4_EraseSizeCovers ==
  (pc = "flashBegin" /\ impl = "flasher" /\ dataLen[1] = 0) =>
    /\ Uint32At(words.begin, 1)[2] % 4096 = 0
    /\ ~U32Less(Uint32At(words.begin, 1), ToUint32(dataLen))

\* the data loop of FlashData failed
DataFailed == FlashFailed /\ ErrStage(Outcome) = 5

\* C5: flashData transmits a block at most 3 times; it goes into another
\* attempt only after a failed write, a read timeout or a response failing
\* the header check, and the third such failure is an error; a response with
\* a valid header and a non-zero status is an error at once, at any attempt,
\* and never leads to another attempt.
C5_RetryPolicy ==
  /\ InFlashData => \A k \in 0..MaxBlocks : TransmissionsOf(k) <= 3
  /\ PcStage = 5 =>
       /\ loc.attempt <= 2
       /\ TransmissionsOf(loc.seq) <= loc.attempt + (IF pc = "flashData_read" THEN 1 ELSE 0)
       /\ loc.read => loc.attempt >= 1 /\ Retryable(loc.response)
  /\ DataFailed =>
       IF loc.read /\ ~Retryable(loc.response)
       THEN /\ Len(loc.response) >= 12
            /\ loc.response[Len(loc.response) - 3] # 0
            /\ Outcome.status = loc.response[Len(loc.response) - 3]
       ELSE loc.attempt = 2

\* a block was transmitted three times, the third read timed out, and
\* FlashData returned the error
C5_Witness ==
  /\ DataFailed
  /\ TransmissionsOf(loc.seq) = 3
  /\ loc.attempt = 2
  /\ loc.read
  /\ loc.response = << >>

\* C6: when the FLASH_DATA of block k is answered with a valid header and
\* status [1, 6, 0, 0], App.Flash returns an error that reports status 1 and
\* error code 6, no higher seq and no FLASH_END was written, the port is closed.
C6_TargetError ==
  (pc = "returned" /\ call = "Flash" /\ loc.read
     /\ loc.response = Resp(ESP_FLASH_DATA, <<1, 6, 0, 0>>)) =>
    /\ DataFailed
    /\ ret.status = 1
    /\ ret.code = 6
    /\ \A i \in 1..Len(DataPackets) : SeqOf(DataPackets[i]) <= loc.seq
    /\ EndPackets = << >>
    /\ open = {}

\* C7: FlashData's commands go out in stage order (sync, chip detection,
\* SPI_ATTACH, FLASH_BEGIN, FLASH_DATA, FLASH_END); a stage is entered only
\* with the commands of the stages before it written; once a stage failed no
\* command of a later stage is on the wire, the error reaches the caller, and
\* App.Flash returns nil only when the whole pipeline has run.
C7_Linear ==
  /\ (InFlashData \/ FlashFailed) =>
       \A i \in 1..Len(wire) : \A j \in i..Len(wire) : Rank(wire[i]) <= Rank(wire[j])
  /\ InFlashData =>
       /\ \A i \in 1..Len(wire) : Rank(wire[i]) \in 1..PcStage
       /\ PcStage >= 2 => wire # << >> /\ wire[1] = Packet(ESP_SYNC, syncData, NoChecksum)
       /\ PcStage >= 4 => \E i \in 1..Len(wire) : Rank(wire[i]) = 3
       /\ PcStage >= 5 => \E i \in 1..Len(wire) : Rank(wire[i]) = 4
       /\ PcStage = 6 => SeqsWritten = 0..(Ceil(ImageLen, 1024) - 1)
  /\ FlashFailed =>
       /\ ErrStage(Outcome) \in 1..6
       /\ \A i \in 1..Len(wire) : Rank(wire[i]) \in 1..ErrStage(Outcome)
  /\ (pc = "Close" /\ call = "Flash" /\ err = Nil) \/ (pc = "returned" /\ call = "Flash" /\ ret = Nil) =>
       /\ wire # << >>
       /\ IsEnd(wire[Len(wire)])
       /\ \A r \in {1, 3, 4} : \E i \in 1..Len(wire) : Rank(wire[i]) = r

\* App.Flash returned the error of a failed SPI_ATTACH: sync and chip
\* detection are on the wire, nothing of a later stage is
C7_Witness ==
  /\ pc = "returned"
  /\ call = "Flash"
  /\ FlashFailed
  /\ ErrStage(ret) = 3
  /\ \E i \in 1..Len(wire) : Rank(wire[i]) = 2
  /\ Rank(wire[Len(wire)]) = 3

\* C8: when an App call has returned, with success or with any error, no
\* port it opened is still open.
C8_PortReleased == pc = "returned" => open = {}

\* C9: every protocol operation (FlashData and its stages, SetBaudRate,
\* RebootTarget) and the final Close act on a port that is open.
C9_NoUseAfterClose ==
  (InFlashData \/ pc \in {"FlashData", "SetBaudRate", "SetBaudRate_read", "RebootTarget",
                          "RebootTarget_release", "Close"})
    => PortOpen

\* C10: whenever an open port is closed, DTR and RTS are both clear.
C10_LinesClearAtClose ==
  \A i \in 1..Len(closeLog) :
    closeLog[i][4] => closeLog[i][2] = FALSE /\ closeLog[i][3] = FALSE

\* C11: slipDecode applied to slipEncode(x) returns x and no error, for every
\* byte string x (the empty one and those with 0xC0 and 0xDB included).
C11_SlipRoundTrip ==
  pc = "roundtrip" => codec.decoded = [data |-> codec.data, err |-> "nil"]

\* x = [0xC0, 0xDB, 0x41] went through slipEncode and slipDecode
C11_Witness ==
  /\ pc = "roundtrip"
  /\ codec.data = <<192, 219, 65>>
  /\ codec.encoded = <<192, 219, 220, 219, 221, 65, 192>>
  /\ codec.decoded.data = <<192, 219, 65>>

\* the index in slipEncode(x) at which the image of x[i] begins
EncodedIndex(x, i) ==
  1 + i + Cardinality({j \in 1..(i - 1) : x[j] \in {192, 219}})

\* C12: slipEncode(x) begins and ends with 0xC0 and has no 0xC0 in between;
\* each 0xC0 of x appears as 0xDB 0xDC, each 0xDB as 0xDB 0xDD, every other
\* byte as itself, in the order of x and with nothing else in between.
C12_SlipEncodeShape ==
  pc = "encoded" =>
    LET x == codec.data
        e == codec.encoded
    IN  /\ Len(e) = EncodedIndex(x, Len(x) + 1)
        /\ e[1] = 192
        /\ e[Len(e)] = 192
        /\ \A i \in 2..(Len(e) - 1) : e[i] # 192
        /\ \A i \in 1..Len(x) :
             LET k == EncodedIndex(x, i)
             IN  CASE x[i] = 192 -> e[k] = 219 /\ e[k + 1] = 220
                   [] x[i] = 219 -> e[k] = 219 /\ e[k + 1] = 221
                   [] OTHER -> e[k] = x[i]

\* x = [0xC0, 0x41, 0xDB] was encoded
C12_Witness ==
  /\ pc = "encoded"
  /\ codec.data = <<192, 65, 219>>
  /\ codec.encoded = <<192, 219, 220, 65, 219, 221, 192>>

\* C13: slipDecode of a frame with leading and trailing 0xC0 fails with the
\* invalid-escape error when some 0xDB inside the frame is followed by a byte
\* other than 0xDC / 0xDD, and when the last byte before the trailing 0xC0 is
\* a 0xDB.
C13_InvalidEscape ==
  LET d == codec.data
  IN  (/\ pc = "decoded"
       /\ Len(d) >= 3
       /\ d[1] = 192
       /\ d[Len(d)] = 192
       /\ \/ \E i \in 2..(Len(d) - 2) : d[i] = 219 /\ d[i + 1] \notin {220, 221}
          \/ d[Len(d) - 1] = 219)
      => codec.decoded.err = "invalid escape sequence"

\* C14: slipDecode fails with the malformed-frame error and returns no bytes
\* for every input shorter than 2 bytes or not beginning or not ending with
\* 0xC0.
C14_MalformedFrame ==
  LET d == codec.data
  IN  (pc = "decoded" /\ (Len(d) < 2 \/ d[1] # 192 \/ d[Len(d)] # 192))
      => codec.decoded = [data |-> << >>, err |-> "invalid SLIP packet"]

\* a frame with data but without the trailing 0xC0 was refused
C14_Witness ==
  /\ pc = "decoded"
  /\ codec.data = <<192, 65, 219, 65>>
  /\ codec.decoded.err = "invalid SLIP packet"

\* C15: the packet sendCommand builds for (cmd, payload, checksum) is an 8-byte
\* header followed by the payload: byte 0 is 0x00, byte 1 is cmd, bytes 2..3
\* are the payload length (little-endian), bytes 4..7 the checksum
\* (little-endian), and the rest is the payload unchanged.
C15_RequestHeader ==
  pc = "sent" =>
    LET p == codec.packet
        n == Len(codec.data)
    IN  /\ Len(p) = 8 + n
        /\ p[1] = 0
        /\ p[2] = codec.cmd
        /\ p[3] + 256 * p[4] = n
        /\ p[5] + 256 * p[6] = codec.checksum[2]
        /\ p[7] + 256 * p[8] = codec.checksum[1]
        /\ SubSeq(p, 9, Len(p)) = codec.data

\* bit k of the XOR of all bytes of s: the parity of the bytes that have it set
XorParity(s, k) ==
  Cardinality({i \in 1..Len(s) : (s[i] \div (2 ^ k)) % 2 = 1}) % 2

\* the XOR of all bytes of s, bit by bit
XorOfBytes(s) ==
  XorParity(s, 0) + 2 * XorParity(s, 1) + 4 * XorParity(s, 2) + 8 * XorParity(s, 3)
    + 16 * XorParity(s, 4) + 32 * XorParity(s, 5) + 64 * XorParity(s, 6)
    + 128 * XorParity(s, 7)

\* C16: the FLASH_DATA request just written carries, as its checksum field,
\* the XOR of 0xEF and the 1024 bytes of the padded block that follow the
\* 16-byte data header (a value in 0..255); every request on the wire that is
\* not a FLASH_DATA has checksum 0; calculateChecksum is 0xEF for the empty
\* string and 0 for [0xEF].
C16_Checksum ==
  /\ \A i \in 1..Len(wire) : ~IsData(wire[i]) => PacketChecksum(wire[i]) = <<0, 0>>
  /\ pc = "flashData_read" =>
       LET p == wire[Len(wire)]
           block == SubSeq(p, 25, Len(p))
       IN  /\ IsData(p)
           /\ Len(block) = 1024
           /\ PacketChecksum(p)[1] = 0
           /\ PacketChecksum(p)[2] \in 0..255
           /\ PacketChecksum(p)[2] = XorOfBytes(<<239>> \o block)
  /\ calculateChecksum(<< >>) = <<0, 239>>
  /\ calculateChecksum(<<239>>) = <<0, 0>>

\* the padded last block of a 1025-byte image has just been written
C16_Witness ==
  /\ pc = "flashData_read"
  /\ ImageLen = 1025
  /\ SeqOf(wire[Len(wire)]) = 1
  /\ wire[Len(wire)][25] = DataByte(1024)
  /\ wire[Len(wire)][26] = 255
  /\ PacketChecksum(wire[Len(wire)]) # <<0, 0>>

\* the stage that read the answered response has failed or is retrying
NotAccepted == FlashFailed \/ (pc = "flashData" /\ loc.read)

\* C17: a response to SPI_ATTACH, FLASH_BEGIN, FLASH_DATA or FLASH_END is
\* accepted (the operation goes on as succeeded) only if it has at least 8
\* bytes, byte 0 = 0x01, byte 1 = the command sent and, when it has 12 bytes or
\* more, bytes[len-4] = 0; a valid header with a non-zero status makes
\* FlashData fail.
C17_SuccessCriterion ==
  answered # << >> =>
    LET cmd == answered[1]
        r == answered[2]
    IN  /\ ~NotAccepted =>
             /\ Len(r) >= 8
             /\ r[1] = 1
             /\ r[2] = cmd
             /\ Len(r) >= 12 => r[Len(r) - 3] = 0
        /\ (Len(r) >= 12 /\ r[1] = 1 /\ r[2] = cmd /\ r[Len(r) - 3] # 0) => FlashFailed

\* the positions at which the session is about to read a response
ReadPositions ==
  {"sync_read", "detectChip_read", "spiAttach_read", "flashBegin_read", "flashData_read",
   "flashEnd_read", "SetBaudRate_read"}

\* C18: at most one request is ever awaiting its read, and while one is, the
\* session is at the read of its response and nowhere else: no request (a
\* retry included) is written before the read for the previous one returned.
C18_NoPipelining ==
  /\ pending <= 1
  /\ pending = 1 <=> pc \in ReadPositions

\* the read of a FLASH_DATA timed out and the retry is about to be written
C18_Witness ==
  /\ pc = "flashData"
  /\ loc.attempt = 1
  /\ loc.read
  /\ answered = <<ESP_FLASH_DATA, << >> >>
  /\ TransmissionsOf(loc.seq) = 1
  /\ pending = 0

\* the SYNC requests with the 36-byte payload written since FlashData began
SyncRequests ==
  Cardinality({i \in 1..Len(wire) : IsSync(wire[i]) /\ PacketData(wire[i]) = syncData})

\* C19: sync gives up on an unanswered SYNC only after 15 SYNC requests: while
\* fewer were written, a SYNC the target ignored is followed by another one,
\* so that a target answering after k < 15 ignored requests is synchronised.
C19_SyncRetries ==
  (FlashFailed /\ ErrStage(Outcome) = 1 /\ Len(Outcome.msg) >= 3
     /\ Outcome.msg[3] = "timeout reading sync response")
    => SyncRequests >= 15

\* the SYNC requests with empty payload on the wire
EmptySyncs ==
  Cardinality({i \in 1..Len(wire) : IsSync(wire[i]) /\ PacketData(wire[i]) = << >>})

\* C20: once the SYNC response is accepted sync goes through exactly 7 further
\* SYNC requests with empty payload (each written unless its write fails),
\* directly after the first SYNC, and then returns nil: sync never fails
\* after it accepted the response, whatever is read or whatever the writes
\* return.
C20_SyncDrain ==
  /\ pc = "sync_extra" =>
       /\ loc.i < 7
       /\ EmptySyncs <= loc.i
       /\ faults = 0 => EmptySyncs = loc.i
  /\ PcStage \in 2..4 =>
       /\ loc.i = 7
       /\ EmptySyncs <= 7
       /\ faults = 0 => EmptySyncs = 7
  /\ InFlashData =>
       \A i \in 2..Len(wire) :
         IsSync(wire[i]) => PacketData(wire[i]) = << >> /\ i <= EmptySyncs + 1
  /\ (FlashFailed /\ ErrStage(Outcome) = 1) => EmptySyncs = 0

\* sync returned nil although two of the 7 writes failed
C20_Witness ==
  /\ pc = "detectChip"
  /\ call = "Flash"
  /\ loc.i = 7
  /\ EmptySyncs = 5
  /\ faults = 2

----------------------------------------------------------------------------
(* C21 .. C30 *)

\* the reset sequences of enterBootloader in the order of its code
ResetOrder ==
  <<"hardReset", "hardResetInverted", "alternativeReset",
    "aggressiveReset", "aggressiveReset", "aggressiveReset">>

\* enterBootloader is between two of its strategies or at its final testSync
InEnterBootloader ==
  pc \in {"hardResetInverted", "alternativeReset", "aggressiveReset", "finalTestSync"}

\* enterBootloader returned its error to the constructor
EnterBootloaderFailed ==
  /\ pc = "NewESP32FlasherManual"
  /\ err = Wrap("failed to enter bootloader", Errorf("failed to enter bootloader mode"))

KnownMagics ==
  {ESP32_CHIP_MAGIC, ESP32S2_CHIP_MAGIC, ESP32S3_CHIP_MAGIC, ESP32C3_CHIP_MAGIC}

\* the detection read returned a register value of the table
MagicRecognised(response) ==
  /\ ValidHeader(response, ESP_READ_REG)
  /\ Len(response) >= 12
  /\ Uint32At(response, 9) \in KnownMagics

Validated(r, cmd) ==
  /\ Len(r) >= 8
  /\ r[1] = 1
  /\ r[2] = cmd
  /\ Len(r) >= 12 => r[Len(r) - 3] = 0

\* C23: SetBaudRate closes (and reopens) the port only after the response to
\* command 0x0F has been validated: direction 0x01, echoed command 0x0F, zero
\* status when present; after a timeout or an invalid response the session
\* keeps the port it had, still open.
C23_BaudValidated ==
  [][ pc = "SetBaudRate_read" =>
        /\ closeLog' # closeLog => Validated(loc'.response, ESP_CHANGE_BAUD)
        /\ ~Validated(loc'.response, ESP_CHANGE_BAUD) =>
             /\ f'.port = f.port
             /\ open' = open ]_vars

\* RebootTarget has returned and the deferred Close is next
Rebooted == impl = "flasher" /\ pc = "Close" /\ err = Nil

\* C24: RebootTarget performs one reset pulse for a normal boot: while RTS is
\* asserted DTR is false (the boot-select line in its normal-boot state), RTS
\* is then released, and when RebootTarget has returned DTR = false and
\* RTS = false.
C24_RebootPulse ==
  /\ pc = "RebootTarget_release" => dtr = FALSE /\ rts = TRUE
  /\ Rebooted => dtr = FALSE /\ rts = FALSE

----------------------------------------------------------------------------
(* SpecMonitor: the port monitor of the App (src/app.go) and the frontend   *)
(* handlers that call MonitorPort, StopMonitor and Flash                    *)
(* (src/frontend/src/main.js). A bound Go method runs on its own goroutine  *)
(* and the handler that awaits it resumes later, so that other handlers run *)
(* in between. Of Flash only the port ownership is kept: the constructor's  *)
(* serial.Open and the deferred Close.                                      *)

\* the entries of the port list
PortNames == {"ttyUSB0", "ttyUSB1"}

\* serial.Open calls in one run
MaxOpens == 3

\* app.names[h] is the port name handle h was opened on
NoApp ==
  [monitorPort |-> 0,            \* a.monitorPort (0: nil)
   stopMonitor |-> FALSE,        \* a.stopMonitor # nil
   goroutine |-> FALSE,          \* the reading goroutine runs
   names |-> << >>,
   portSelect |-> "ttyUSB0",     \* portSelect.value
   isMonitoring |-> FALSE,
   btnFlashDisabled |-> FALSE,
   btnMonitorDisabled |-> FALSE,
   portSelectDisabled |-> FALSE,
   monitorCall |-> "none",       \* MonitorPort: "none", or returned "ok" / "err"
   flashCall |-> "none"]         \* Flash: "none", "session" or "failed"

InitMonitor ==
  /\ pc = "frontend"
  /\ impl = "flasher"
  /\ call = "none"
  /\ f = NoFlasher
  /\ open = {}
  /\ handles = 0
  /\ dtr = FALSE
  /\ rts = FALSE
  /\ wire = << >>
  /\ dataLen = <<0, 0, 0>>
  /\ offset = <<0, 0>>
  /\ files = {}
  /\ loc = NoLocals
  /\ err = Nil
  /\ ret = Nil
  /\ faults = 0
  /\ closeLog = << >>
  /\ words = << >>
  /\ codec = << >>
  /\ pending = 0
  /\ answered = << >>
  /\ app = NoApp

\* StopMonitor: the stop signal, close(a.stopMonitor), the sleep in which the
\* goroutine ends, a.monitorPort.Close(); a: the App fields before
StopMonitor(a) ==
  [a EXCEPT !.monitorPort = 0, !.stopMonitor = FALSE, !.goroutine = FALSE]

\* stopMonitoring() of the frontend
stopMonitoring(a) ==
  [a EXCEPT !.isMonitoring = FALSE, !.btnFlashDisabled = FALSE,
            !.portSelectDisabled = FALSE]

\* startMonitoring() of the frontend
startMonitoring(a) ==
  [a EXCEPT !.isMonitoring = TRUE, !.btnFlashDisabled = TRUE,
            !.portSelectDisabled = TRUE]

\* the user selects another port
portSelect_change ==
  /\ pc = "frontend"
  /\ ~app.portSelectDisabled
  /\ \E p \in PortNames \ {app.portSelect} : app' = [app EXCEPT !.portSelect = p]
  /\ UNCHANGED <<pc, impl, call, f, open, handles, dtr, rts, wire, dataLen, offset,
                 files, loc, err, ret, faults, closeLog, words, codec, pending,
                 answered>>

\* the click on btnMonitor (shown while not monitoring): MonitorPort runs in
\* the App: a running monitor is stopped, the port is opened and the reading
\* goroutine started. Whether serial.Open is refused for a port some other
\* handle holds is left to the platform
btnMonitor_click ==
  /\ pc = "frontend"
  /\ ~app.isMonitoring
  /\ ~app.btnMonitorDisabled
  /\ app.monitorCall = "none"
  /\ handles < MaxOpens
  /\ \E ok \in BOOLEAN :
       LET a == IF app.monitorPort # 0 THEN StopMonitor(app) ELSE app
           o == IF app.monitorPort # 0 THEN open \ {app.monitorPort} ELSE open
       IN  IF ok
           THEN /\ handles' = handles + 1
                /\ open' = o \cup {handles + 1}
                /\ app' = [a EXCEPT !.monitorPort = handles + 1,
                                    !.stopMonitor = TRUE,
                                    !.goroutine = TRUE,
                                    !.names = Append(@, app.portSelect),
                                    !.monitorCall = "ok"]
           ELSE /\ handles' = handles
                /\ open' = o
                /\ app' = [a EXCEPT !.monitorCall = "err"]
  /\ UNCHANGED <<pc, impl, call, f, dtr, rts, wire, dataLen, offset, files, loc, err,
                 ret, faults, closeLog, words, codec, pending, answered>>

\* the btnMonitor handler resumes after MonitorPort returned
btnMonitor_resolved ==
  /\ pc = "frontend"
  /\ app.monitorCall # "none"
  /\ app' = [(IF app.monitorCall = "ok" THEN startMonitoring(app) ELSE app)
               EXCEPT !.monitorCall = "none"]
  /\ UNCHANGED <<pc, impl, call, f, open, handles, dtr, rts, wire, dataLen, offset,
                 files, loc, err, ret, faults, closeLog, words, codec, pending,
                 answered>>

\* the click on btnStopMonitor (shown while monitoring): StopMonitor, then
\* stopMonitoring()
btnStopMonitor_click ==
  /\ pc = "frontend"
  /\ app.isMonitoring
  /\ open' = open \ {app.monitorPort}
  /\ app' = stopMonitoring(StopMonitor(app))
  /\ UNCHANGED <<pc, impl, call, f, handles, dtr, rts, wire, dataLen, offset, files,
                 loc, err, ret, faults, closeLog, words, codec, pending, answered>>

\* the goroutine's Read fails: "monitor-error" is emitted, the deferred
\* function closes the port; the frontend's handler calls stopMonitoring()
monitor_error ==
  /\ pc = "frontend"
  /\ app.goroutine
  /\ open' = open \ {app.monitorPort}
  /\ app' = stopMonitoring([app EXCEPT !.monitorPort = 0, !.goroutine = FALSE])
  /\ UNCHANGED <<pc, impl, call, f, handles, dtr, rts, wire, dataLen, offset, files,
                 loc, err, ret, faults, closeLog, words, codec, pending, answered>>

\* the btnFlash handler returns at once while isMonitoring
FlashGuard(a) == ~a.isMonitoring

\* the click on btnFlash: the controls are disabled and Flash runs in the
\* App; one of its constructors opens the port (ok) or Flash fails
btnFlash_click ==
  /\ pc = "frontend"
  /\ ~app.btnFlashDisabled
  /\ FlashGuard(app)
  /\ app.flashCall = "none"
  /\ handles < MaxOpens
  /\ \E ok \in BOOLEAN :
       /\ handles' = IF ok THEN handles + 1 ELSE handles
       /\ open' = IF ok THEN open \cup {handles + 1} ELSE open
       /\ f' = IF ok THEN [port |-> handles + 1, chipType |-> "Unknown",
                           blockSize |-> ESP_FLASH_WRITE_SIZE]
               ELSE f
       /\ app' = [app EXCEPT !.btnFlashDisabled = TRUE,
                             !.btnMonitorDisabled = TRUE,
                             !.portSelectDisabled = TRUE,
                             !.names = IF ok THEN Append(@, app.portSelect) ELSE @,
                             !.flashCall = IF ok THEN "session" ELSE "failed"]
  /\ UNCHANGED <<pc, impl, call, dtr, rts, wire, dataLen, offset, files, loc, err, ret,
                 faults, closeLog, words, codec, pending, answered>>

\* Flash returns (the deferred flasher.Close() when there is a session) and
\* the handler's finally block enables the controls again
btnFlash_finally ==
  /\ pc = "frontend"
  /\ app.flashCall # "none"
  /\ open' = IF app.flashCall = "session" THEN open \ {f.port} ELSE open
  /\ app' = [app EXCEPT !.btnFlashDisabled = FALSE,
                        !.btnMonitorDisabled = FALSE,
                        !.portSelectDisabled = FALSE,
                        !.flashCall = "none"]
  /\ UNCHANGED <<pc, impl, call, f, handles, dtr, rts, wire, dataLen, offset, files,
                 loc, err, ret, faults, closeLog, words, codec, pending, answered>>

NextMonitor ==
  \/ portSelect_change
  \/ btnMonitor_click
  \/ btnMonitor_resolved
  \/ btnStopMonitor_click
  \/ monitor_error
  \/ btnFlash_click
  \/ btnFlash_finally

SpecMonitor == InitMonitor /\ [][NextMonitor]_vars

\* the monitor and a session hold open handles on the same port
SamePortHeld ==
  /\ app.monitorPort \in open
  /\ app.flashCall = "session"
  /\ f.port \in open
  /\ app.names[app.monitorPort] = app.names[f.port]

\* C25: the port monitor and a flashing session never hold the same port
\* open at the same time, for every order in which MonitorPort, StopMonitor
\* and Flash are called on the App.
C25_MonitorExclusive == ~SamePortHeld

----------------------------------------------------------------------------
(* SpecRead: readResponse of esp32_protocol.go: the read loop and the scan  *)
(* of the accumulated bytes for a SLIP packet                               *)

\* Read calls that return bytes in one readResponse call
MaxReads == 3

\* the timeout of readResponse in ticks (one tick: the sleep after a Read)
MaxTicks == 4

\* what one port.Read may deliver: a stray END, text with an END in it, an
\* END..END span with an invalid escape, a frame, a frame with an escaped
\* END, text, and the two halves of a frame
ReadChunks ==
  { <<SLIP_END>>,
    <<65, SLIP_END, 65>>,
    <<SLIP_END, SLIP_ESC, 65, SLIP_END>>,
    <<SLIP_END, 1, SLIP_END>>,
    <<SLIP_END, SLIP_ESC, SLIP_ESC_END, 1, SLIP_END>>,
    <<65>>,
    <<SLIP_END, 1>>,
    <<8, SLIP_END>> }

\* the inner loop of the scan: j runs over the END bytes after i; the first
\* rawData[i : j+1] that slipDecode accepts is returned, one it rejects is
\* passed over (continue)
RECURSIVE scanEnd(_, _, _)
scanEnd(rawData, i, j) ==
  IF j > Len(rawData) THEN [found |-> FALSE, data |-> << >>]
  ELSE IF rawData[j] = SLIP_END
       THEN LET decoded == slipDecode(SubSeq(rawData, i, j))
            IN  IF decoded.err # "nil" THEN scanEnd(rawData, i, j + 1)
                ELSE [found |-> TRUE, data |-> decoded.data]
  ELSE scanEnd(rawData, i, j + 1)

\* the outer loop of the scan: i runs over the END bytes
RECURSIVE scanStart(_, _)
scanStart(rawData, i) ==
  IF i > Len(rawData) THEN [found |-> FALSE, data |-> << >>]
  ELSE IF rawData[i] = SLIP_END
       THEN LET packet == scanEnd(rawData, i, i + 1)
            IN  IF packet.found THEN packet ELSE scanStart(rawData, i + 1)
  ELSE scanStart(rawData, i + 1)

\* what readResponse returns for the bytes it accumulated: the timeout error
\* for none, the first packet the scan finds, the raw bytes if it finds none
readResponseResult(rawData) ==
  IF Len(rawData) = 0 THEN [data |-> << >>, err |-> "timeout reading response"]
  ELSE IF scanStart(rawData, 1).found
       THEN [data |-> scanStart(rawData, 1).data, err |-> "nil"]
  ELSE [data |-> rawData, err |-> "nil"]

InitRead ==
  /\ InitCommon
  /\ impl = "protocol"
  /\ codec = [allData |-> << >>, elapsed |-> 0, reads |-> 0,
              result |-> [data |-> << >>, err |-> "none"]]

\* readResponse is called: SetReadTimeout, the empty buffer, start = now
readResponse ==
  /\ pc = "idle"
  /\ pc' = "readResponse_Read"
  /\ UNCHANGED <<impl, call, f, open, handles, dtr, rts, wire, dataLen, offset, files,
                 loc, err, ret, faults, closeLog, words, codec, pending, answered, app>>

\* one turn of the read loop, entered while time.Since(start) < timeout:
\* port.Read returns bytes (appended, 10 ms sleep), or nothing and no error
\* when its own timeout ran out, or an error, which ends the loop once bytes
\* have been accumulated
readResponse_Read ==
  /\ pc = "readResponse_Read"
  /\ codec.elapsed < MaxTicks
  /\ \/ /\ codec.reads < MaxReads
        /\ \E chunk \in ReadChunks :
             codec' = [codec EXCEPT !.allData = @ \o chunk,
                                    !.reads = @ + 1,
                                    !.elapsed = @ + 1]
        /\ pc' = "readResponse_Read"
     \/ /\ codec' = [codec EXCEPT !.elapsed = MaxTicks]
        /\ pc' = "readResponse_Read"
     \/ /\ codec' = [codec EXCEPT !.elapsed = IF Len(codec.allData) > 0 THEN @ ELSE @ + 1]
        /\ pc' = IF Len(codec.allData) > 0 THEN "readResponse_scan" ELSE "readResponse_Read"
  /\ UNCHANGED <<impl, call, f, open, handles, dtr, rts, wire, dataLen, offset, files,
                 loc, err, ret, faults, closeLog, words, pending, answered, app>>

\* after the loop: the timeout error or the scan for a SLIP packet
readResponse_scan ==
  /\ \/ pc = "readResponse_scan"
     \/ pc = "readResponse_Read" /\ codec.elapsed >= MaxTicks
  /\ codec' = [codec EXCEPT !.result = readResponseResult(codec.allData)]
  /\ pc' = "returned"
  /\ UNCHANGED <<impl, call, f, open, handles, dtr, rts, wire, dataLen, offset, files,
                 loc, err, ret, faults, closeLog, words, pending, answered, app>>

NextRead ==
  \/ readResponse
  \/ readResponse_Read
  \/ readResponse_scan

SpecRead == InitRead /\ [][NextRead]_vars

\* rawData[a..b] is an END..END span with no END inside
EndSpan(rawData, a, b) ==
  /\ a < b
  /\ rawData[a] = SLIP_END
  /\ rawData[b] = SLIP_END
  /\ \A k \in (a + 1)..(b - 1) : rawData[k] # SLIP_END

\* rawData[a..b] is a well-formed SLIP frame with some content
WellFormedFrame(rawData, a, b) ==
  /\ EndSpan(rawData, a, b)
  /\ b > a + 1
  /\ slipDecode(SubSeq(rawData, a, b)).err = "nil"

\* C26: when the accumulated bytes are an END..END span that fails to decode
\* followed by a well-formed SLIP frame, readResponse passes over the failing
\* span and returns the decoded content of the frame.
C26_NoiseTolerant ==
  pc = "returned" =>
    \A b \in 1..Len(codec.allData) :
      ( /\ EndSpan(codec.allData, 1, b)
        /\ slipDecode(SubSeq(codec.allData, 1, b)).err # "nil"
        /\ WellFormedFrame(codec.allData, b + 1, Len(codec.allData)) )
      => codec.result = slipDecode(SubSeq(codec.allData, b + 1, Len(codec.allData)))

\* the accumulated bytes hold a complete SLIP frame
FrameAccumulated(rawData) ==
  \E a, b \in 1..Len(rawData) : WellFormedFrame(rawData, a, b)

\* C27: readResponse reads from the port only while no complete SLIP frame
\* has been accumulated and the deadline has not elapsed, and it returns the
\* timeout error exactly when no byte was received before the deadline.
C27_StopsOnFrame ==
  /\ (pc = "readResponse_Read" /\ codec.elapsed < MaxTicks)
       => ~FrameAccumulated(codec.allData)
  /\ pc = "returned"
       => (codec.result.err = "timeout reading response" <=> codec.allData = << >>)

\* the number of END bytes among the first b bytes
EndsBefore(rawData, b) ==
  Cardinality({k \in 1..b : rawData[k] = SLIP_END})

\* C29: when the accumulated bytes are a stray END byte, or noise with one
\* 0xC0 byte in it, followed by a well-formed response frame, readResponse
\* returns the decoded content of that frame, never the (empty or noise-only)
\* span between the stray END and the END that opens the frame.
C29_StrayEnd ==
  pc = "returned" =>
    \A b \in 1..Len(codec.allData) :
      ( /\ EndsBefore(codec.allData, b) = 1
        /\ WellFormedFrame(codec.allData, b + 1, Len(codec.allData)) )
      => codec.result = slipDecode(SubSeq(codec.allData, b + 1, Len(codec.allData)))

----------------------------------------------------------------------------
(* SpecAck: the block loop of FlashData and the attempt loop of flashData   *)
(* (esp32_protocol.go; the flasher file has the same two loops) against a   *)
(* target that answers each FLASH_DATA request it received, in              *)
(* order, at a time of its own. codec.target holds the requests the target  *)
(* has not answered yet, codec.inbuf the responses waiting in the input     *)
(* buffer of the port, each with the <<seq, attempt>> of the request it     *)
(* answers; codec.acks has one entry per block flashData returned nil for.  *)

\* blocks of the image in SpecAck
MaxAckBlocks == 3

InitAck ==
  /\ InitCommon
  /\ impl = "protocol"
  /\ codec = [target |-> << >>, inbuf |-> << >>, acks |-> << >>]

\* FlashData enters its block loop with seq = 0
ack_FlashData ==
  /\ pc = "idle"
  /\ pc' = "flashData"
  /\ UNCHANGED <<impl, call, f, open, handles, dtr, rts, wire, dataLen, offset, files,
                 loc, err, ret, faults, closeLog, words, codec, pending, answered, app>>

\* flashData: one pass of the attempt loop up to the write; nothing is read
\* or discarded from the input buffer before the request is written
ack_flashData ==
  /\ pc = "flashData"
  /\ \E w \in BOOLEAN :
       IF w
       THEN /\ codec' = [codec EXCEPT !.target = Append(@, <<loc.seq, loc.attempt>>)]
            /\ pc' = "flashData_read"
            /\ UNCHANGED <<loc, err>>
       ELSE /\ UNCHANGED codec
            /\ IF loc.attempt = FLASH_DATA_ATTEMPTS - 1
               THEN /\ err' = Errorf("failed to send flash data after 3 attempts")
                    /\ pc' = "returned"
                    /\ UNCHANGED loc
               ELSE /\ loc' = [loc EXCEPT !.attempt = @ + 1]
                    /\ UNCHANGED <<pc, err>>
  /\ UNCHANGED <<impl, call, f, open, handles, dtr, rts, wire, dataLen, offset, files,
                 ret, faults, closeLog, words, pending, answered, app>>

\* the target answers the oldest request it has: a FLASH_DATA response with
\* status 0 (written) or 1; the response names neither seq nor attempt
ack_target ==
  /\ codec.target # << >>
  /\ \E status \in {0, 1} :
       codec' = [codec EXCEPT
                   !.target = Tail(@),
                   !.inbuf = Append(@, [for |-> codec.target[1],
                                        bytes |-> Resp(ESP_FLASH_DATA, <<status, 0, 0, 0>>)])]
  /\ UNCHANGED <<pc, impl, call, f, open, handles, dtr, rts, wire, dataLen, offset,
                 files, loc, err, ret, faults, closeLog, words, pending, answered, app>>

\* flashData: the read takes what the input buffer holds and returns its
\* first packet (the timeout error if it holds nothing); then the checks of
\* the response: retry, return nil (FlashData goes on with the next block)
\* or return the error
ack_flashData_read ==
  /\ pc = "flashData_read"
  /\ LET response == IF codec.inbuf = << >> THEN << >> ELSE codec.inbuf[1].bytes
         out == protocolFlashDataOutcome(response, loc.attempt, loc.seq)
     IN  CASE out.kind = "retry" ->
                /\ loc' = [loc EXCEPT !.attempt = @ + 1]
                /\ codec' = [codec EXCEPT !.inbuf = << >>]
                /\ pc' = "flashData"
                /\ UNCHANGED err
           [] out.kind = "ok" ->
                /\ codec' = [codec EXCEPT
                               !.inbuf = << >>,
                               !.acks = Append(@, [block |-> loc.seq,
                                                   for |-> codec.inbuf[1].for])]
                /\ loc' = [loc EXCEPT !.seq = @ + 1, !.attempt = 0]
                /\ pc' = IF loc.seq + 1 < MaxAckBlocks THEN "flashData" ELSE "returned"
                /\ UNCHANGED err
           [] OTHER ->
                /\ codec' = [codec EXCEPT !.inbuf = << >>]
                /\ err' = out.e
                /\ pc' = "returned"
                /\ UNCHANGED loc
  /\ UNCHANGED <<impl, call, f, open, handles, dtr, rts, wire, dataLen, offset, files,
                 ret, faults, closeLog, words, pending, answered, app>>

NextAck ==
  \/ ack_FlashData
  \/ ack_flashData
  \/ ack_target
  \/ ack_flashData_read

SpecAck == InitAck /\ [][NextAck]_vars

\* C28: a FLASH_DATA block is reported as written only on a response the
\* target produced for that block: the response flashData accepted for block
\* seq answers a request that carried seq, never a request for an earlier
\* block.
C28_AckForBlock ==
  \A k \in 1..Len(codec.acks) : codec.acks[k].for[1] = codec.acks[k].block

-----------------------------------------------------------------------------
(* SpecValidate: testBootloaderMode (esp32_protocol.go) read by read. The   *)
(* text a Read returns is a sequence of fragments: "I" and "P" are the two  *)
(* letters of the application marker "IP", "rst:0x10" and "Brownout" stand  *)
(* for whole words of the boot output, "." for any other text. codec holds  *)
(* the locals of the function (attempt, isInBootloader, response), the      *)
(* number of SYNC commands handed to sendCommand, and what the output       *)
(* drained so far contains as one text: its last fragment, and whether a    *)
(* negative or a positive indicator occurs in it.                           *)

\* the reads of the drain loop: for attempt := 0; attempt < 10; attempt++
DrainReads == 10

Fragments == {".", "I", "P", "rst:0x10", "Brownout"}

\* what one Read of the drain loop can return when data arrived
DrainChunks ==
  { <<a>> : a \in Fragments } \cup { <<a, b>> : a \in Fragments, b \in Fragments }

\* strings.Contains(data, s)
Contains(data, s) ==
  \E i \in 1..(Len(data) - Len(s) + 1) : SubSeq(data, i, i + Len(s) - 1) = s

\* the markers the drain loop sets isInBootloader on
positiveIndicators == { <<"rst:0x10">> }

\* the markers the drain loop returns false on
negativeIndicators == { <<"I", "P">> }

\* the positive indicators of the boot output: those the loop tests and
\* the brownout message
bootloaderIndicators == positiveIndicators \cup { <<"Brownout">> }

\* len(response) >= 8 && response[0] == 0x01 && response[1] == ESP_SYNC
syncAccepted(response) ==
  Len(response) >= 8 /\ response[1] = 1 /\ response[2] = ESP_SYNC

InitValidate ==
  /\ InitCommon
  /\ impl = "protocol"
  /\ codec = [attempt |-> 0, isInBootloader |-> FALSE, last |-> << >>,
              negative |-> FALSE, positive |-> FALSE, syncs |-> 0,
              response |-> << >>, result |-> FALSE]

\* entry: both buffers reset, isInBootloader := false
validate_testBootloaderMode ==
  /\ pc = "idle"
  /\ pc' = "drain"
  /\ UNCHANGED <<impl, call, f, open, handles, dtr, rts, wire, dataLen, offset, files,
                 loc, err, ret, faults, closeLog, words, codec, pending, answered, app>>

\* one iteration of the drain loop: a Read that fails or returns nothing
\* breaks; otherwise the chunk read is searched, a positive marker sets
\* isInBootloader, a negative marker returns false; after the tenth chunk
\* the loop ends
validate_Read ==
  /\ pc = "drain"
  /\ \/ /\ pc' = "sendCommand"
        /\ UNCHANGED codec
     \/ \E data \in DrainChunks :
          LET text == codec.last \o data
              pos  == \E s \in positiveIndicators : Contains(data, s)
              neg  == \E s \in negativeIndicators : Contains(data, s)
          IN  /\ codec' = [codec EXCEPT
                   !.attempt = @ + 1,
                   !.isInBootloader = @ \/ pos,
                   !.last = <<data[Len(data)]>>,
                   !.negative = @ \/ \E s \in negativeIndicators : Contains(text, s),
                   !.positive = @ \/ \E s \in bootloaderIndicators : Contains(text, s),
                   !.result = FALSE]
              /\ pc' = IF neg THEN "returned"
                       ELSE IF codec.attempt + 1 < DrainReads THEN "drain"
                       ELSE "sendCommand"
  /\ UNCHANGED <<impl, call, f, open, handles, dtr, rts, wire, dataLen, offset, files,
                 loc, err, ret, faults, closeLog, words, pending, answered, app>>

\* the buffers are reset again and one SYNC goes to sendCommand; when the
\* write fails the function returns isInBootloader
validate_sendCommand ==
  /\ pc = "sendCommand"
  /\ \E w \in BOOLEAN :
       /\ codec' = [codec EXCEPT !.syncs = @ + 1, !.result = codec.isInBootloader]
       /\ wire' = IF w THEN Append(wire, Packet(ESP_SYNC, syncData, NoChecksum)) ELSE wire
       /\ pc' = IF w THEN "readResponse" ELSE "returned"
  /\ UNCHANGED <<impl, call, f, open, handles, dtr, rts, dataLen, offset, files,
                 loc, err, ret, faults, closeLog, words, pending, answered, app>>

\* readResponse(2 s): an error (nothing read) returns isInBootloader, an
\* accepted response returns true, any other response isInBootloader
validate_readResponse ==
  /\ pc = "readResponse"
  /\ \E response \in {<< >>} \cup ResponsesFor(ESP_SYNC) :
       /\ codec' = [codec EXCEPT
                      !.response = response,
                      !.result = IF response # << >> /\ syncAccepted(response)
                                 THEN TRUE ELSE codec.isInBootloader]
       /\ pc' = "returned"
  /\ UNCHANGED <<impl, call, f, open, handles, dtr, rts, wire, dataLen, offset, files,
                 loc, err, ret, faults, closeLog, words, pending, answered, app>>

NextValidate ==
  \/ validate_testBootloaderMode
  \/ validate_Read
  \/ validate_sendCommand
  \/ validate_readResponse

SpecValidate == InitValidate /\ [][NextValidate]_vars

\* a response of at least 8 bytes with byte 0 = 0x01 and byte 1 = SYNC arrived
SyncAnswered ==
  Len(codec.response) >= 8 /\ codec.response[1] = 1 /\ codec.response[2] = ESP_SYNC

\* C30: testBootloaderMode returns false as soon as the drained output
\* contains a negative indicator, and no SYNC is sent; otherwise it sends
\* exactly one SYNC, and it returns true when a response of at least 8 bytes
\* with byte 0 = 0x01 and byte 1 = SYNC arrives, and when none arrives it
\* returns true exactly if a positive bootloader indicator was seen in the
\* drained output.
C30_Validation ==
  /\ codec.negative => pc = "returned" /\ ~codec.result /\ codec.syncs = 0
  /\ pc = "returned" /\ ~codec.negative =>
       /\ codec.syncs = 1
       /\ codec.result = (SyncAnswered \/ codec.positive)

-----------------------------------------------------------------------------
(* SpecReset: the reset sequences of enterBootloader call by call. Each     *)
(* sequence is the list of its SetDTR, SetRTS and time.Sleep calls in       *)
(* source order; dtr and rts are the lines of the open port. codec.seq is   *)
(* the sequence running, codec.ip the call it is at, codec.steps[name] the  *)
(* <<DTR, RTS, ms>> of every Sleep of the last run of sequence name, and    *)
(* codec.falls the <<name, DTR>> of every SetRTS call that took RTS from 1  *)
(* to 0.                                                                    *)

SetDTR(v) == [op |-> "SetDTR", v |-> v, ms |-> 0]
SetRTS(v) == [op |-> "SetRTS", v |-> v, ms |-> 0]
Sleep(ms) == [op |-> "Sleep", v |-> FALSE, ms |-> ms]

SERIAL_FLASHER_RESET_HOLD_TIME_MS == 100
SERIAL_FLASHER_BOOT_HOLD_TIME_MS == 50

hardResetCalls ==
  << SetDTR(TRUE), SetRTS(FALSE), Sleep(10),
     SetRTS(TRUE), Sleep(SERIAL_FLASHER_RESET_HOLD_TIME_MS),
     SetRTS(FALSE), Sleep(SERIAL_FLASHER_BOOT_HOLD_TIME_MS),
     SetDTR(FALSE), Sleep(200) >>

hardResetInvertedCallsKeepsDTR ==
  << SetDTR(TRUE), SetRTS(TRUE), Sleep(10),
     SetRTS(FALSE), Sleep(SERIAL_FLASHER_RESET_HOLD_TIME_MS),
     SetRTS(TRUE), Sleep(SERIAL_FLASHER_BOOT_HOLD_TIME_MS),
     SetDTR(TRUE), Sleep(200) >>

hardResetInvertedCalls ==
  << SetDTR(FALSE), SetRTS(TRUE), Sleep(10),
     SetRTS(FALSE), Sleep(SERIAL_FLASHER_RESET_HOLD_TIME_MS),
     SetRTS(TRUE), Sleep(SERIAL_FLASHER_BOOT_HOLD_TIME_MS),
     SetDTR(TRUE), Sleep(200) >>

alternativeResetCalls ==
  << SetDTR(FALSE), SetRTS(FALSE), Sleep(100),
     SetDTR(TRUE), Sleep(100),
     SetRTS(TRUE), Sleep(100),
     SetRTS(FALSE), Sleep(250),
     SetDTR(FALSE), Sleep(250) >>

aggressiveResetCalls ==
  << SetDTR(TRUE), SetRTS(TRUE), Sleep(200),
     SetRTS(FALSE), Sleep(300),
     SetDTR(FALSE), Sleep(100),
     SetDTR(TRUE), Sleep(50),
     SetDTR(FALSE), Sleep(200) >>

espressifReferenceResetCalls ==
  << SetDTR(TRUE), SetRTS(FALSE), Sleep(10),
     SetDTR(TRUE), SetRTS(TRUE), Sleep(SERIAL_FLASHER_RESET_HOLD_TIME_MS),
     SetDTR(TRUE), SetRTS(FALSE), Sleep(SERIAL_FLASHER_BOOT_HOLD_TIME_MS),
     SetDTR(FALSE), SetRTS(FALSE), Sleep(200) >>

espressifReferenceResetInvertedCalls ==
  << SetDTR(FALSE), SetRTS(TRUE), Sleep(10),
     SetDTR(FALSE), SetRTS(FALSE), Sleep(SERIAL_FLASHER_RESET_HOLD_TIME_MS),
     SetDTR(FALSE), SetRTS(TRUE), Sleep(SERIAL_FLASHER_BOOT_HOLD_TIME_MS),
     SetDTR(TRUE), SetRTS(TRUE), Sleep(200) >>

ResetNames ==
  {"hardReset", "hardResetInverted", "alternativeReset", "aggressiveReset",
   "espressifReferenceReset", "espressifReferenceResetInverted"}

ResetCalls(name) ==
  CASE name = "hardReset" -> hardResetCalls
    [] name = "hardResetInverted" -> hardResetInvertedCalls
    [] name = "alternativeReset" -> alternativeResetCalls
    [] name = "aggressiveReset" -> aggressiveResetCalls
    [] name = "espressifReferenceReset" -> espressifReferenceResetCalls
    [] OTHER -> espressifReferenceResetInvertedCalls

\* enterBootloader: the sequence tried after sequence name has failed its
\* validation ("none": no sequence is left)
SequenceAfter(name, attempt) ==
  CASE name = "hardReset" -> "hardResetInverted"
    [] name = "hardResetInverted" -> "alternativeReset"
    [] name = "alternativeReset" -> "aggressiveReset"
    [] name = "aggressiveReset" ->
         IF attempt + 1 < AGGRESSIVE_ATTEMPTS THEN "aggressiveReset" ELSE "none"
    [] name = "espressifReferenceReset" -> "espressifReferenceResetInverted"
    [] OTHER -> "none"

InitReset ==
  /\ InitCommon
  /\ impl \in {"flasher", "protocol"}
  /\ codec = [seq |-> "none", ip |-> 1, attempt |-> 0,
              steps |-> [n \in ResetNames |-> << >>], falls |-> << >>]

\* serial.Open, then enterBootloader starts its first sequence
reset_enterBootloader ==
  /\ pc = "idle"
  /\ \E lines \in LineStatesAtOpen :
       /\ dtr' = lines[1]
       /\ rts' = lines[2]
  /\ handles' = 1
  /\ open' = {1}
  /\ f' = [port |-> 1, chipType |-> "Unknown", blockSize |-> ESP_FLASH_WRITE_SIZE]
  /\ codec' = [codec EXCEPT
                 !.seq = IF impl = "flasher" THEN "hardReset" ELSE "espressifReferenceReset"]
  /\ pc' = "reset"
  /\ UNCHANGED <<impl, call, wire, dataLen, offset, files, loc, err, ret, faults,
                 closeLog, words, pending, answered, app>>

\* the call the running sequence is at
ThisCall == ResetCalls(codec.seq)[codec.ip]

\* after a call: the next call, or the validation when it was the last
Advance ==
  IF codec.ip < Len(ResetCalls(codec.seq)) THEN "reset" ELSE "validate"

reset_SetDTR ==
  /\ pc = "reset"
  /\ ThisCall.op = "SetDTR"
  /\ dtr' = ThisCall.v
  /\ codec' = [codec EXCEPT !.ip = @ + 1]
  /\ pc' = Advance
  /\ UNCHANGED <<impl, call, f, open, handles, rts, wire, dataLen, offset, files,
                 loc, err, ret, faults, closeLog, words, pending, answered, app>>

reset_SetRTS ==
  /\ pc = "reset"
  /\ ThisCall.op = "SetRTS"
  /\ rts' = ThisCall.v
  /\ codec' = [codec EXCEPT
                 !.ip = @ + 1,
                 !.falls = IF rts /\ ~ThisCall.v
                           THEN Append(@, <<codec.seq, dtr>>) ELSE @]
  /\ pc' = Advance
  /\ UNCHANGED <<impl, call, f, open, handles, dtr, wire, dataLen, offset, files,
                 loc, err, ret, faults, closeLog, words, pending, answered, app>>

\* time.Sleep: the lines stay as they are for ms milliseconds
reset_Sleep ==
  /\ pc = "reset"
  /\ ThisCall.op = "Sleep"
  /\ codec' = [codec EXCEPT
                 !.ip = @ + 1,
                 !.steps[codec.seq] = Append(@, <<dtr, rts, ThisCall.ms>>)]
  /\ pc' = Advance
  /\ UNCHANGED <<impl, call, f, open, handles, dtr, rts, wire, dataLen, offset, files,
                 loc, err, ret, faults, closeLog, words, pending, answered, app>>

\* the validation after a sequence: enterBootloader returns nil, or goes on
\* to the next sequence, or has none left
reset_validate ==
  /\ pc = "validate"
  /\ \E ok \in BOOLEAN :
       LET next == SequenceAfter(codec.seq, codec.attempt)
       IN  IF ok \/ next = "none"
           THEN /\ pc' = "returned"
                /\ UNCHANGED codec
           ELSE /\ pc' = "reset"
                /\ codec' = [codec EXCEPT
                     !.seq = next,
                     !.ip = 1,
                     !.attempt = IF codec.seq = "aggressiveReset" THEN @ + 1 ELSE 0,
                     !.steps[next] = << >>]
  /\ UNCHANGED <<impl, call, f, open, handles, dtr, rts, wire, dataLen, offset, files,
                 loc, err, ret, faults, closeLog, words, pending, answered, app>>

NextReset ==
  \/ reset_enterBootloader
  \/ reset_SetDTR
  \/ reset_SetRTS
  \/ reset_Sleep
  \/ reset_validate

SpecReset == InitReset /\ [][NextReset]_vars

\* the <<DTR, RTS>> of the Sleeps of the last run of sequence name
LinesAt(name) ==
  [k \in 1..Len(codec.steps[name]) |-> <<codec.steps[name][k][1], codec.steps[name][k][2]>>]

IsPrefix(s, t) == Len(s) <= Len(t) /\ s = SubSeq(t, 1, Len(s))

\* the direct sequence holds the lines at (1,0), (1,1), (1,0), (0,0)
DirectLines ==
  IsPrefix(LinesAt("hardReset"),
           << <<TRUE, FALSE>>, <<TRUE, TRUE>>, <<TRUE, FALSE>>, <<FALSE, FALSE>> >>)

\* C31: in the direct reset sequence the (DTR, RTS) line states are, in
\* order, (1,0), (1,1), (1,0), (0,0), ending with both lines at 0, and in
\* the direct, alternative and aggressive sequences DTR is 1 at every moment
\* RTS goes from 1 to 0.
C31_ResetLines ==
  /\ DirectLines
  /\ \A k \in 1..Len(codec.falls) :
       codec.falls[k][1] \in {"hardReset", "alternativeReset", "aggressiveReset"}
         => codec.falls[k][2]

\* step k of sequence inv holds each line at the negation of step k of
\* sequence dir, for the same time
NegatedSteps(dir, inv) ==
  \A k \in 1..Len(codec.steps[inv]) :
    /\ k <= Len(codec.steps[dir])
    /\ codec.steps[inv][k] = << ~codec.steps[dir][k][1], ~codec.steps[dir][k][2],
                                codec.steps[dir][k][3] >>

\* C32: the inverted reset sequence is the direct one with both lines
\* negated: step for step, DTR and RTS of the inverted sequence are the
\* negations of DTR and RTS of the direct sequence, and the wait of each
\* step is the same (hardReset / hardResetInverted and
\* espressifReferenceReset / espressifReferenceResetInverted).
C32_InvertedIsNegation ==
  /\ NegatedSteps("hardReset", "hardResetInverted")
  /\ NegatedSteps("espressifReferenceReset", "espressifReferenceResetInverted")

C32_Witness ==
  /\ pc = "validate"
  /\ codec.seq = "hardResetInverted"
  /\ Len(codec.steps["hardResetInverted"]) = 4
  /\ Len(codec.steps["hardReset"]) = 4
  /\ codec.steps["hardReset"][1] = <<TRUE, FALSE, 10>>

-----------------------------------------------------------------------------
(* C33 .. C40 *)

\* the block size FlashData cuts the image by
DataBlockSize == IF impl = "flasher" THEN f.blockSize ELSE PROTOCOL_BLOCK_SIZE

\* a uint32 as a natural
NatFromU32(u) == u[1] * Limb + u[2]

\* C33: for every image, the num_blocks word of FLASH_BEGIN equals the number
\* of FLASH_DATA blocks FlashData then sends and the block_size word equals
\* the size of each of those blocks, in both FlashData implementations.
C33_BeginMatchesData ==
  pc = "flashBegin" =>
    /\ NatFromU32(Uint32At(words.begin, 5)) = words.totalBlocks
    /\ NatFromU32(Uint32At(words.begin, 9)) = Len(Block(0, 1, DataBlockSize))

-----------------------------------------------------------------------------
(* SpecTerminate: FlashData of the flasher file called on its own on a      *)
(* flasher whose port is open, against a target that at every read may stay *)
(* silent, answer with garbage, answer with an error status or answer well, *)
(* and a port whose writes may fail, with no limit on the number of faults. *)
(* The calls of FlashData run one after the other and each returns: a read  *)
(* ends at its deadline at the latest, so a step that is possible is        *)
(* eventually taken (weak fairness of the next-state action).               *)

\* the largest image of SpecTerminate takes this many 1024-byte blocks
MaxTerminateBlocks == 2

TerminateSizes == {0, 1024 * (MaxTerminateBlocks - 1) + 1}

InitTerminate ==
  /\ pc = "FlashData"
  /\ impl = "flasher"
  /\ call = "FlashData"
  /\ f = [port |-> 1, chipType |-> "Unknown", blockSize |-> ESP_FLASH_WRITE_SIZE]
  /\ open = {1}
  /\ handles = 1
  /\ dtr = FALSE
  /\ rts = FALSE
  /\ wire = << >>
  /\ \E n \in TerminateSizes : dataLen = IntFromNat(n)
  /\ offset = APP_OFFSET
  /\ files = {}
  /\ loc = NoLocals
  /\ err = Nil
  /\ ret = Nil
  /\ faults = 0
  /\ closeLog = << >>
  /\ words = << >>
  /\ codec = << >>
  /\ pending = 0
  /\ answered = << >>
  /\ app = << >>

NextTerminate ==
  \/ FlashData
  \/ sync
  \/ sync_read
  \/ sync_extra
  \/ detectChip
  \/ detectChip_read
  \/ spiAttach
  \/ spiAttach_read
  \/ flashBegin
  \/ flashBegin_read
  \/ flashData
  \/ flashData_read
  \/ flashEnd
  \/ flashEnd_read

SpecTerminate == InitTerminate /\ [][NextTerminate]_vars /\ WF_vars(NextTerminate)

-----------------------------------------------------------------------------
(* SpecProgress: the emitProgress calls of one App.Flash call and of the    *)
(* FlashData it runs, in the order they are made. codec.emitted is the      *)
(* sequence of percentages handed to emitProgress, codec.blocks the entries *)
(* of it that were emitted after a written block, codec.stage the step of   *)
(* FlashData about to run and codec.seq the block of the data loop; each    *)
(* step succeeds or fails as the port and the target decide.                *)

\* FlashData: the percentage emitted before step 1..4 (sync, detectChip,
\* spiAttach, flashBegin)
StagePercent(stage) == 10 * stage

\* progress := 50 + int(float64(seq+1)/float64(totalBlocks)*40); the
\* quotient, the product and the truncation are monotone in seq, and the
\* product is at most 40
BlockPercent(seq, totalBlocks) == 50 + ((seq + 1) * 40) \div totalBlocks

\* the largest image of SpecProgress takes this many 1024-byte blocks
MaxProgressBlocks == 6

\* image lengths of SpecProgress: 0 .. MaxProgressBlocks whole blocks
ProgressSizes == { 1024 * k : k \in 0..MaxProgressBlocks }

InitProgress ==
  /\ InitCommon
  /\ impl = "flasher"
  /\ codec = [emitted |-> << >>, blocks |-> {}, stage |-> 0, seq |-> 0]

\* App.Flash up to the constructor: 0, the file is read, 10, 20
progress_Flash ==
  /\ pc = "idle"
  /\ call' = "Flash"
  /\ \E file \in {"missing", "unreadable", "ok"}, n \in ProgressSizes :
       /\ dataLen' = IF file = "ok" THEN IntFromNat(n) ELSE dataLen
       /\ codec' = [codec EXCEPT !.emitted =
                      CASE file = "missing" -> << >>
                        [] file = "unreadable" -> <<0>>
                        [] OTHER -> <<0, 10, 20>>]
       /\ ret' = CASE file = "missing" -> Errorf("file does not exist")
                   [] file = "unreadable" -> Errorf("failed to read file")
                   [] OTHER -> ret
       /\ pc' = IF file = "ok" THEN "NewESP32FlasherWithProgress" ELSE "returned"
  /\ UNCHANGED <<impl, f, open, handles, dtr, rts, wire, offset, files, loc, err,
                 faults, closeLog, words, pending, answered, app>>

\* the constructors emit no progress: a flasher is there (automatic or
\* manual mode), or Flash returns the error
progress_NewESP32Flasher ==
  /\ pc = "NewESP32FlasherWithProgress"
  /\ \E ok \in BOOLEAN :
       IF ok
       THEN /\ codec' = [codec EXCEPT !.stage = 1]
            /\ pc' = "FlashData"
            /\ UNCHANGED ret
       ELSE /\ ret' = Wrap("failed to create flasher in manual mode",
                           Errorf("failed to open port"))
            /\ pc' = "returned"
            /\ UNCHANGED codec
  /\ UNCHANGED <<impl, call, f, open, handles, dtr, rts, wire, dataLen, offset, files,
                 loc, err, faults, closeLog, words, pending, answered, app>>

\* FlashData returned an error: App.Flash emits 0 and returns it
FlashFailedProgress(emitted) ==
  /\ codec' = [codec EXCEPT !.emitted = Append(emitted, 0)]
  /\ ret' = Wrap("failed to flash", Errorf("step failed"))
  /\ pc' = "returned"

\* steps 1..4 of FlashData: the percentage of the step is emitted, then the
\* step runs; after flashBegin, 50 is emitted ahead of the data loop
progress_FlashData ==
  /\ pc = "FlashData"
  /\ codec.stage \in 1..4
  /\ \E ok \in BOOLEAN :
       LET emitted == Append(codec.emitted, StagePercent(codec.stage))
       IN  IF ~ok
           THEN FlashFailedProgress(emitted)
           ELSE /\ codec' = [codec EXCEPT
                      !.emitted = IF codec.stage = 4 THEN Append(emitted, 50) ELSE emitted,
                      !.stage = @ + 1]
                /\ pc' = IF codec.stage < 4 THEN "FlashData"
                         ELSE IF 0 < TotalBlocks(dataLen, ESP_FLASH_WRITE_SIZE)
                         THEN "flashData" ELSE "flashEnd"
                /\ UNCHANGED ret
  /\ UNCHANGED <<impl, call, f, open, handles, dtr, rts, wire, dataLen, offset, files,
                 loc, err, faults, closeLog, words, pending, answered, app>>

\* the data loop: flashData(block, seq), then the percentage of the block
progress_flashData ==
  /\ pc = "flashData"
  /\ \E ok \in BOOLEAN :
       LET totalBlocks == TotalBlocks(dataLen, ESP_FLASH_WRITE_SIZE)
       IN  IF ~ok
           THEN FlashFailedProgress(codec.emitted)
           ELSE /\ codec' = [codec EXCEPT
                      !.emitted = Append(@, BlockPercent(codec.seq, totalBlocks)),
                      !.blocks = @ \cup {Len(codec.emitted) + 1},
                      !.seq = @ + 1]
                /\ pc' = IF codec.seq + 1 < totalBlocks THEN "flashData" ELSE "flashEnd"
                /\ UNCHANGED ret
  /\ UNCHANGED <<impl, call, f, open, handles, dtr, rts, wire, dataLen, offset, files,
                 loc, err, faults, closeLog, words, pending, answered, app>>

\* 95, flashEnd, 100 by FlashData; then RebootTarget and 100 by App.Flash
progress_flashEnd ==
  /\ pc = "flashEnd"
  /\ \E ok \in BOOLEAN :
       IF ~ok
       THEN FlashFailedProgress(Append(codec.emitted, 95))
       ELSE /\ codec' = [codec EXCEPT !.emitted = @ \o <<95, 100, 100>>]
            /\ ret' = Nil
            /\ pc' = "returned"
  /\ UNCHANGED <<impl, call, f, open, handles, dtr, rts, wire, dataLen, offset, files,
                 loc, err, faults, closeLog, words, pending, answered, app>>

NextProgress ==
  \/ progress_Flash
  \/ progress_NewESP32Flasher
  \/ progress_FlashData
  \/ progress_flashData
  \/ progress_flashEnd

SpecProgress == InitProgress /\ [][NextProgress]_vars

\* App.Flash returned nil
FlashSucceeded == pc = "returned" /\ call = "Flash" /\ ret = Nil

\* C35: during one App.Flash call that succeeds, the percentages passed to
\* emitProgress by App.Flash and by FlashData form a non-decreasing sequence
\* of values within 0..100 whose last value is 100, and the values emitted
\* after each written block lie in the band 50..90.
C35_ProgressMonotone ==
  FlashSucceeded =>
    /\ \A k \in 1..Len(codec.emitted) : codec.emitted[k] \in 0..100
    /\ \A k \in 1..(Len(codec.emitted) - 1) : codec.emitted[k] <= codec.emitted[k + 1]
    /\ codec.emitted[Len(codec.emitted)] = 100
    /\ \A k \in codec.blocks : codec.emitted[k] \in 50..90

-----------------------------------------------------------------------------
(* SpecRetry: App.FlashWithRetry around App.Flash of the current program.   *)
(* codec holds maxAttempts, the loop variable attempt, the number of Flash  *)
(* calls made and, once FlashWithRetry has returned (pc = "done"), its      *)
(* result. Each Flash call runs through the actions of App.Flash; the       *)
(* handles of the ports are numbered anew per call when none is open.       *)

\* the largest maxAttempts handed to FlashWithRetry
MaxAttempts == 2

InitRetry ==
  /\ pc = "FlashWithRetry"
  /\ impl = "flasher"
  /\ call = "none"
  /\ f = NoFlasher
  /\ open = {}
  /\ handles = 0
  /\ dtr = FALSE
  /\ rts = FALSE
  /\ wire = << >>
  /\ dataLen = <<0, 0, 0>>
  /\ offset = <<0, 0>>
  /\ files = {}
  /\ loc = NoLocals
  /\ err = Nil
  /\ ret = Nil
  /\ faults = 0
  /\ closeLog = << >>
  /\ words = << >>
  /\ pending = 0
  /\ answered = << >>
  /\ app = << >>
  /\ \E m \in -1..MaxAttempts :
       codec = [maxAttempts |-> m, attempt |-> 1, calls |-> 0, result |-> Nil]

\* a variant of the loop head with attempt < maxAttempts as its condition
RetryLoopStrict == codec.attempt < codec.maxAttempts

\* for attempt := 1; attempt <= maxAttempts; attempt++
RetryLoop == codec.attempt <= codec.maxAttempts

\* image lengths of SpecRetry: no block, one block
RetrySizes == {0, 1}

\* the loop head: the loop is over and the error is returned, or
\* a.Flash(portName, filePath) is called: Flash up to its constructor, with
\* locals of its own
FlashWithRetry ==
  /\ pc = "FlashWithRetry"
  /\ IF RetryLoop
     THEN /\ codec' = [codec EXCEPT !.calls = @ + 1]
          /\ call' = "Flash"
          /\ \E file \in {"missing", "unreadable", "ok"}, n \in RetrySizes :
               /\ dataLen' = IF file = "ok" THEN IntFromNat(n) ELSE <<0, 0, 0>>
               /\ offset' = IF file = "ok" THEN APP_OFFSET ELSE <<0, 0>>
               /\ ret' = CASE file = "missing" -> Errorf("file does not exist")
                           [] file = "unreadable" -> Errorf("failed to read file")
                           [] OTHER -> Nil
               /\ pc' = IF file = "ok" THEN "NewESP32FlasherWithProgress" ELSE "returned"
     ELSE /\ codec' = [codec EXCEPT !.result = Errorf("flash failed after all attempts")]
          /\ pc' = "done"
          /\ UNCHANGED <<call, dataLen, offset, ret>>
  /\ err' = Nil
  /\ faults' = 0
  /\ closeLog' = << >>
  /\ loc' = NoLocals
  /\ wire' = << >>
  /\ pending' = 0
  /\ answered' = << >>
  /\ handles' = IF open = {} THEN 0 ELSE handles
  /\ UNCHANGED <<impl, f, open, dtr, rts, files, words, app>>

\* Flash has returned: nil ends FlashWithRetry with nil, an error goes into
\* the next pass of the loop
FlashWithRetry_returned ==
  /\ pc = "returned"
  /\ IF ret = Nil
     THEN /\ codec' = [codec EXCEPT !.result = Nil]
          /\ pc' = "done"
     ELSE /\ codec' = [codec EXCEPT !.attempt = @ + 1]
          /\ pc' = "FlashWithRetry"
  /\ UNCHANGED <<impl, call, f, open, handles, dtr, rts, wire, dataLen, offset, files,
                 loc, err, ret, faults, closeLog, words, pending, answered, app>>

NextRetry ==
  \/ FlashWithRetry
  \/ FlashWithRetry_returned
  \/ NewESP32FlasherWithProgress
  \/ hardReset
  \/ hardResetInverted
  \/ alternativeReset
  \/ aggressiveReset
  \/ finalTestSync
  \/ NewESP32FlasherManual
  \/ manualTestSync
  \/ FlashData
  \/ sync
  \/ sync_read
  \/ sync_extra
  \/ detectChip
  \/ detectChip_read
  \/ spiAttach
  \/ spiAttach_read
  \/ flashBegin
  \/ flashBegin_read
  \/ flashData
  \/ flashData_read
  \/ flashEnd
  \/ flashEnd_read
  \/ RebootTarget
  \/ RebootTarget_release
  \/ DeferredClose

SpecRetry == InitRetry /\ [][NextRetry]_vars

\* maxAttempts when positive, else 0
AttemptsAllowed == IF codec.maxAttempts > 0 THEN codec.maxAttempts ELSE 0

\* C36: FlashWithRetry(maxAttempts) calls Flash at most maxAttempts times
\* (never when maxAttempts <= 0); every call but the last one made has
\* failed; it returns nil exactly when the last call returned nil, and an
\* error only after maxAttempts failed calls; and no port of an attempt is
\* open when the next attempt begins or when FlashWithRetry returns.
C36_RetryPolicy ==
  /\ codec.calls <= AttemptsAllowed
  /\ codec.calls = IF pc = "FlashWithRetry" THEN codec.attempt - 1
                   ELSE IF pc = "done" /\ codec.result # Nil THEN codec.attempt - 1
                   ELSE codec.attempt
  /\ pc = "FlashWithRetry" => open = {} /\ (codec.calls > 0 => ret # Nil)
  /\ pc = "done" =>
       /\ open = {}
       /\ IF codec.result = Nil
          THEN codec.calls >= 1 /\ ret = Nil
          ELSE codec.calls = AttemptsAllowed /\ (codec.calls > 0 => ret # Nil)

\* the first call failed after it had opened a port, the second succeeded
C36_Witness ==
  /\ pc = "done"
  /\ codec.result = Nil
  /\ codec.calls = 2
  /\ codec.maxAttempts = 2
  /\ Len(closeLog) >= 1

-----------------------------------------------------------------------------
(* SpecLines: the line buffer of the monitor's reader (app.go, MonitorPort, *)
(* the n > 0 branch). A text is a sequence of bytes: "a" is a printing      *)
(* byte, "SP" a space, "CR" a carriage return and "LF" a newline.           *)
(* codec.lineBuffer is a.lineBuffer after the last read was processed,      *)
(* codec.emitted the lines that read emitted as monitor-data, in order, and *)
(* codec.before and codec.data the buffer before that read and the bytes    *)
(* it returned.                                                             *)

\* reads of one monitor session in SpecLines
MaxLineReads == 3

\* if len(a.lineBuffer) > 1000
LINE_BUFFER_LIMIT == 1000

\* buffer := make([]byte, 1024): the most one Read returns
MONITOR_READ_SIZE == 1024

Run(c, n) == [i \in 1..n |-> c]

\* what one Read may return (n > 0)
MonitorChunks ==
  { Run("a", 1), Run("a", 600), Run("a", MONITOR_READ_SIZE), Run("SP", 600),
    <<"LF">>, <<"CR">>, <<"a", "CR", "LF">>, <<"SP", "CR", "LF", "a">> }

\* the white space strings.TrimSpace removes
Space == {"SP", "CR", "LF"}

\* strings.Index(s, "\n"), 1-based; 0 for -1
IndexNewline(s) ==
  IF \E i \in 1..Len(s) : s[i] = "LF"
  THEN CHOOSE i \in 1..Len(s) : s[i] = "LF" /\ \A j \in 1..(i - 1) : s[j] # "LF"
  ELSE 0

\* a variant of TrimSpace that removes leading white space only
TrimLeft(s) ==
  IF \A i \in 1..Len(s) : s[i] \in Space THEN << >>
  ELSE LET first == CHOOSE i \in 1..Len(s) :
                      s[i] \notin Space /\ \A j \in 1..(i - 1) : s[j] \in Space
       IN  SubSeq(s, first, Len(s))

\* strings.TrimSpace(s)
TrimSpace(s) ==
  IF \A i \in 1..Len(s) : s[i] \in Space THEN << >>
  ELSE LET first == CHOOSE i \in 1..Len(s) :
                      s[i] \notin Space /\ \A j \in 1..(i - 1) : s[j] \in Space
           last  == CHOOSE i \in 1..Len(s) :
                      s[i] \notin Space /\ \A j \in (i + 1)..Len(s) : s[j] \in Space
       IN  SubSeq(s, first, last)

\* the inner loop: every complete line is cut off the buffer, trimmed and
\* emitted unless empty
RECURSIVE completeLines(_, _)
completeLines(buffer, emitted) ==
  LET newlineIdx == IndexNewline(buffer)
  IN  IF newlineIdx = 0 THEN [lineBuffer |-> buffer, emitted |-> emitted]
      ELSE LET line == TrimSpace(SubSeq(buffer, 1, newlineIdx - 1))
               rest == SubSeq(buffer, newlineIdx + 1, Len(buffer))
           IN  completeLines(rest, IF line # << >> THEN Append(emitted, line) ELSE emitted)

\* the buffer that grew past the limit is emitted as it is and cleared
overflow(r) ==
  IF Len(r.lineBuffer) > LINE_BUFFER_LIMIT
  THEN LET line == TrimSpace(r.lineBuffer)
       IN  [lineBuffer |-> << >>,
            emitted |-> IF line # << >> THEN Append(r.emitted, line) ELSE r.emitted]
  ELSE r

InitLines ==
  /\ InitCommon
  /\ impl = "flasher"
  /\ codec = [lineBuffer |-> << >>, emitted |-> << >>, before |-> << >>,
              data |-> << >>, reads |-> 0]

\* MonitorPort: the port is opened and the line buffer cleared
lines_MonitorPort ==
  /\ pc = "idle"
  /\ pc' = "monitor"
  /\ UNCHANGED <<impl, call, f, open, handles, dtr, rts, wire, dataLen, offset, files,
                 loc, err, ret, faults, closeLog, words, codec, pending, answered, app>>

\* one Read that returned n > 0 bytes, processed
lines_Read ==
  /\ pc = "monitor"
  /\ codec.reads < MaxLineReads
  /\ \E data \in MonitorChunks :
       LET r == overflow(completeLines(codec.lineBuffer \o data, << >>))
       IN  codec' = [lineBuffer |-> r.lineBuffer, emitted |-> r.emitted,
                     before |-> codec.lineBuffer, data |-> data,
                     reads |-> codec.reads + 1]
  /\ UNCHANGED <<impl, call, f, open, handles, dtr, rts, wire, dataLen, offset, files,
                 loc, err, ret, faults, closeLog, words, pending, answered, app, pc>>

NextLines ==
  \/ lines_MonitorPort
  \/ lines_Read

SpecLines == InitLines /\ [][NextLines]_vars

\* what follows the last newline of the text the last read completed
Unterminated ==
  LET text == codec.before \o codec.data
      nl   == {i \in 1..Len(text) : text[i] = "LF"}
  IN  IF nl = {} THEN text
      ELSE SubSeq(text, (CHOOSE i \in nl : \A j \in nl : j <= i) + 1, Len(text))

\* the bytes of s that are not white space
Printing(s) == Cardinality({i \in 1..Len(s) : s[i] \notin Space})

MaxGoroutines == 2
MaxStops == 2

GoroutineIds == 1..MaxGoroutines

InitReader ==
  /\ pc = "api"
  /\ impl = "flasher"
  /\ call = "none"
  /\ f = NoFlasher
  /\ open = {}
  /\ handles = 0
  /\ dtr = FALSE
  /\ rts = FALSE
  /\ wire = << >>
  /\ dataLen = <<0, 0, 0>>
  /\ offset = <<0, 0>>
  /\ files = {}
  /\ loc = NoLocals
  /\ err = Nil
  /\ ret = Nil
  /\ faults = 0
  /\ closeLog = << >>
  /\ words = << >>
  /\ pending = 0
  /\ answered = << >>
  /\ app = [monitorPort |-> 0, stopMonitor |-> 0]
  /\ codec = [g |-> << >>, chan |-> << >>, cont |-> "api", expect |-> 0,
              failed |-> {}, stopped |-> {}, stops |-> 0, last |-> "none",
              active |-> FALSE]

ReaderUnchanged ==
  UNCHANGED <<impl, call, f, handles, dtr, rts, wire, dataLen, offset, files,
              loc, err, ret, faults, closeLog, words, pending, answered>>

\* a nil dereference in any goroutine ends the process
Crashed ==
  \/ pc = "panic"
  \/ \E i \in 1..Len(codec.g) : codec.g[i].pc = "panic"

Started(i) == ~Crashed /\ i <= Len(codec.g)

\* the goroutines that have been started and have not returned
Live == {i \in 1..Len(codec.g) : codec.g[i].pc # "done"}

\* select { case <-a.stopMonitor: return; default: }: a nil channel is never
\* ready, a closed one always is, a buffered value is taken
reader_select(i) ==
  /\ Started(i)
  /\ codec.g[i].pc = "select"
  /\ LET c == app.stopMonitor
         ready == c # 0 /\ codec.chan[c] # "empty"
     IN codec' = [codec EXCEPT
                    !.g[i].pc = IF ready THEN "defer" ELSE "check",
                    !.chan = IF ready /\ codec.chan[c] = "full"
                             THEN [codec.chan EXCEPT ![c] = "empty"]
                             ELSE codec.chan]
  /\ UNCHANGED <<pc, open, app>>
  /\ ReaderUnchanged

\* if a.monitorPort == nil { return }
reader_check(i) ==
  /\ Started(i)
  /\ codec.g[i].pc = "check"
  /\ codec' = [codec EXCEPT !.g[i].pc = IF app.monitorPort = 0 THEN "defer"
                                        ELSE "SetReadTimeout"]
  /\ UNCHANGED <<pc, open, app>>
  /\ ReaderUnchanged

\* a.monitorPort.SetReadTimeout(50ms): the field is read again; on a closed
\* port the call fails or not, by platform
reader_SetReadTimeout(i) ==
  /\ Started(i)
  /\ codec.g[i].pc = "SetReadTimeout"
  /\ \E fails \in BOOLEAN :
       /\ fails => app.monitorPort # 0 /\ app.monitorPort \notin open
       /\ codec' = [codec EXCEPT !.g[i].pc = IF app.monitorPort = 0 THEN "panic"
                                             ELSE IF fails THEN "defer"
                                             ELSE "Read"]
  /\ UNCHANGED <<pc, open, app>>
  /\ ReaderUnchanged

\* a.monitorPort.Read(buffer) is entered: the field is read a third time
reader_Read(i) ==
  /\ Started(i)
  /\ codec.g[i].pc = "Read"
  /\ codec' = [codec EXCEPT !.g[i] = IF app.monitorPort = 0
                                     THEN [pc |-> "panic", h |-> 0]
                                     ELSE [pc |-> "reading", h |-> app.monitorPort]]
  /\ UNCHANGED <<pc, open, app>>
  /\ ReaderUnchanged

\* Read returns: data or a timeout continue the loop, a closed port or a
\* device error end it
reader_Read_return(i) ==
  /\ Started(i)
  /\ codec.g[i].pc = "reading"
  /\ \E outcome \in {"data", "error"} :
       LET h == codec.g[i].h
           closed == h \notin open
       IN codec' = [codec EXCEPT
                      !.g[i] = [pc |-> IF closed \/ outcome = "error" THEN "defer"
                                       ELSE "select",
                                h |-> 0],
                      !.failed = IF ~closed /\ outcome = "error" THEN @ \cup {h}
                                 ELSE @]
  /\ UNCHANGED <<pc, open, app>>
  /\ ReaderUnchanged

\* the deferred function: if a.monitorPort != nil
reader_defer(i) ==
  /\ Started(i)
  /\ codec.g[i].pc = "defer"
  /\ codec' = [codec EXCEPT !.g[i].pc = IF app.monitorPort # 0 THEN "deferClose"
                                        ELSE "done"]
  /\ UNCHANGED <<pc, open, app>>
  /\ ReaderUnchanged

\* a.monitorPort.Close() of the deferred function
reader_deferClose(i) ==
  /\ Started(i)
  /\ codec.g[i].pc = "deferClose"
  /\ codec' = [codec EXCEPT !.g[i].pc = IF app.monitorPort = 0 THEN "panic"
                                        ELSE "deferNil"]
  /\ open' = open \ {app.monitorPort}
  /\ UNCHANGED <<pc, app>>
  /\ ReaderUnchanged

\* a.monitorPort = nil of the deferred function
reader_deferNil(i) ==
  /\ Started(i)
  /\ codec.g[i].pc = "deferNil"
  /\ codec' = [codec EXCEPT !.g[i].pc = "done"]
  /\ app' = [app EXCEPT !.monitorPort = 0]
  /\ UNCHANGED <<pc, open>>
  /\ ReaderUnchanged

goroutine(i) ==
  \/ reader_select(i)
  \/ reader_check(i)
  \/ reader_SetReadTimeout(i)
  \/ reader_Read(i)
  \/ reader_Read_return(i)
  \/ reader_defer(i)
  \/ reader_deferClose(i)
  \/ reader_deferNil(i)

\* MonitorPort is called: if a.monitorPort != nil { a.StopMonitor() }
reader_MonitorPort ==
  /\ ~Crashed
  /\ pc = "api"
  /\ handles < MaxGoroutines
  /\ pc' = IF app.monitorPort # 0 THEN "StopMonitor" ELSE "Open"
  /\ codec' = [codec EXCEPT !.cont = "Open", !.expect = 0,
                            !.last = "MonitorPort",
                            !.active = app.monitorPort # 0,
                            !.stopped = IF app.monitorPort # 0 THEN @ \cup Live
                                        ELSE @]
  /\ UNCHANGED <<open, app, handles>>
  /\ UNCHANGED <<impl, call, f, dtr, rts, wire, dataLen, offset, files, loc,
                 err, ret, faults, closeLog, words, pending, answered>>

\* StopMonitor is called from the frontend
reader_StopMonitor ==
  /\ ~Crashed
  /\ pc = "api"
  /\ codec.stops < MaxStops
  /\ pc' = "StopMonitor"
  /\ codec' = [codec EXCEPT !.cont = "api", !.expect = 0, !.stops = @ + 1,
                            !.last = "StopMonitor",
                            !.stopped = @ \cup Live]
  /\ UNCHANGED <<open, app>>
  /\ ReaderUnchanged

\* if a.stopMonitor != nil { select { case a.stopMonitor <- true: default: }
stop_send ==
  /\ ~Crashed
  /\ pc = "StopMonitor"
  /\ pc' = IF app.stopMonitor = 0 THEN "Sleep" ELSE "close"
  /\ codec' = IF app.stopMonitor = 0 THEN codec
              ELSE [codec EXCEPT !.chan[app.stopMonitor] = "full"]
  /\ UNCHANGED <<open, app>>
  /\ ReaderUnchanged

\* close(a.stopMonitor)
stop_close ==
  /\ ~Crashed
  /\ pc = "close"
  /\ pc' = "stopMonitor = nil"
  /\ codec' = [codec EXCEPT !.chan[app.stopMonitor] = "closed"]
  /\ UNCHANGED <<open, app>>
  /\ ReaderUnchanged

\* a.stopMonitor = nil
stop_nil ==
  /\ ~Crashed
  /\ pc = "stopMonitor = nil"
  /\ pc' = "Sleep"
  /\ app' = [app EXCEPT !.stopMonitor = 0]
  /\ UNCHANGED <<open, codec>>
  /\ ReaderUnchanged

\* time.Sleep(200 * time.Millisecond)
stop_Sleep ==
  /\ ~Crashed
  /\ pc = "Sleep"
  /\ pc' = "monitorPort != nil"
  /\ UNCHANGED <<open, app, codec>>
  /\ ReaderUnchanged

\* if a.monitorPort != nil
stop_check ==
  /\ ~Crashed
  /\ pc = "monitorPort != nil"
  /\ pc' = IF app.monitorPort # 0 THEN "Close" ELSE "return"
  /\ UNCHANGED <<open, app, codec>>
  /\ ReaderUnchanged

\* a.monitorPort.Close()
stop_ClosePort ==
  /\ ~Crashed
  /\ pc = "Close"
  /\ pc' = IF app.monitorPort = 0 THEN "panic" ELSE "monitorPort = nil"
  /\ open' = open \ {app.monitorPort}
  /\ UNCHANGED <<app, codec>>
  /\ ReaderUnchanged

\* a.monitorPort = nil
stop_nilPort ==
  /\ ~Crashed
  /\ pc = "monitorPort = nil"
  /\ pc' = "return"
  /\ app' = [app EXCEPT !.monitorPort = 0]
  /\ UNCHANGED <<open, codec>>
  /\ ReaderUnchanged

\* a.lineBuffer = "", the events, and the return to the caller
stop_return ==
  /\ ~Crashed
  /\ pc = "return"
  /\ pc' = codec.cont
  /\ UNCHANGED <<open, app, codec>>
  /\ ReaderUnchanged

\* serialport.Open and a.monitorPort = port, or the error return
monitor_Open ==
  /\ ~Crashed
  /\ pc = "Open"
  /\ \E ok \in BOOLEAN :
       IF ok
       THEN /\ handles' = handles + 1
            /\ open' = open \cup {handles + 1}
            /\ app' = [app EXCEPT !.monitorPort = handles + 1]
            /\ pc' = "go"
       ELSE /\ pc' = "api"
            /\ UNCHANGED <<handles, open, app>>
  /\ UNCHANGED codec
  /\ UNCHANGED <<impl, call, f, dtr, rts, wire, dataLen, offset, files, loc,
                 err, ret, faults, closeLog, words, pending, answered>>

\* a.stopMonitor = make(chan bool, 1), go func() {...}(), return nil
monitor_go ==
  /\ ~Crashed
  /\ pc = "go"
  /\ pc' = "api"
  /\ app' = [app EXCEPT !.stopMonitor = Len(codec.chan) + 1]
  /\ codec' = [codec EXCEPT !.chan = Append(@, "empty"),
                            !.g = Append(@, [pc |-> "select", h |-> 0]),
                            !.expect = IF codec.active THEN handles ELSE 0]
  /\ UNCHANGED open
  /\ ReaderUnchanged

\* the steps of an App method under way
MethodSteps ==
  \/ stop_send
  \/ stop_close
  \/ stop_nil
  \/ stop_Sleep
  \/ stop_check
  \/ stop_ClosePort
  \/ stop_nilPort
  \/ stop_return
  \/ monitor_Open
  \/ monitor_go

NextReader ==
  \/ reader_MonitorPort
  \/ reader_StopMonitor
  \/ MethodSteps
  \/ \E i \in GoroutineIds : goroutine(i)

\* every goroutine and the method under way keep being scheduled; the calls
\* of the frontend are not obliged to come
SpecReader ==
  /\ InitReader
  /\ [][NextReader]_vars
  /\ WF_vars(MethodSteps)
  /\ \A i \in GoroutineIds : WF_vars(goroutine(i))

\* C38: after a MonitorPort call made while a monitor was active has
\* returned, and until StopMonitor is called or a read fails on the new port,
\* a.monitorPort is the port that call opened and the port is open: the
\* previous reader goroutine neither closed nor cleared it.
C38_NewPortKept ==
  (codec.expect # 0 /\ codec.expect \notin codec.failed)
    => (app.monitorPort = codec.expect /\ codec.expect \in open)

\* C39: under every interleaving of the reader goroutine with StopMonitor,
\* the goroutine never calls SetReadTimeout, Read or Close on a nil
\* a.monitorPort.
C39_NoNilCall ==
  \A i \in 1..Len(codec.g) : codec.g[i].pc # "panic"

\* the goroutine has returned, or a panic has ended the process
Terminated(i) == Crashed \/ (i <= Len(codec.g) /\ codec.g[i].pc = "done")

\* C40: a reader goroutine that was running when StopMonitor was called
\* eventually terminates, and once StopMonitor has returned and the
\* goroutines have finished the monitor port is closed and a.monitorPort
\* is nil.
C40_ReaderTerminates ==
  /\ \A i \in GoroutineIds : (i \in codec.stopped) ~> Terminated(i)
  /\ [](pc = "api" /\ codec.last = "StopMonitor" /\ Live = {} /\ ~Crashed
          => app.monitorPort = 0 /\ open = {})

====
